---- MODULE Spec2Model ----
(***************************************************************************)
(* The Beads issue browser of pi-ext: the list session (showIssueList),    *)
(* the issue edit form (editIssue) and the remote issue store they talk to *)
(* through `bd`; the ask_user selector of pi-ask; the tool_call handlers of *)
(* permission-gate and safety.  Texts are sequences of one-character       *)
(* strings; a raw key is named by a string and carries the char codes the  *)
(* terminal sends.                                                         *)
(***************************************************************************)
EXTENDS Integers, Sequences, FiniteSets, TLC

\* ---------------------------------------------------------------- bounds
\* Longest title / description buffer the edit form is driven to.
MaxText == 3
\* Longest search buffer typed in search entry.
MaxSearch == 1
\* Most un-awaited `bd update` calls a list session issues.
MaxWrites == 1
\* Longest description the vertical cursor moves are tried on.
MaxDesc == 4
\* Most records of a list the selection is moved through.
MaxItems == 3
\* Longest search term the filter is tried on.
MaxTerm == 2
\* Longest one-line description the preview wraps, and the widest narrow render.
MaxLine == 4
MaxWidth == 3

\* ---------------------------------------------------------------- texts
NL == "\n"

\* JS `undefined` for BdIssue.priority.
NoPriority == -1
\* JS `undefined` for BdIssue.description and for an unset id.
Undefined == << "undefined" >>

LowerOf(c) == CASE c = "A" -> "a" [] c = "B" -> "b" [] OTHER -> c

toLowerCase(s) == [i \in 1..Len(s) |-> LowerOf(s[i])]

\* String.prototype.includes
includes(hay, needle) ==
    \E i \in 0..(Len(hay) - Len(needle)) :
        \A j \in 1..Len(needle) : hay[i + j] = needle[j]

IsSpace(c) == c \in {" ", NL}

RECURSIVE trimStart(_)
trimStart(s) == IF s # <<>> /\ IsSpace(Head(s)) THEN trimStart(Tail(s)) ELSE s

RECURSIVE trimEnd(_)
trimEnd(s) ==
    IF s # <<>> /\ IsSpace(s[Len(s)]) THEN trimEnd(SubSeq(s, 1, Len(s) - 1)) ELSE s

\* String.prototype.trim
trim(s) == trimEnd(trimStart(s))

\* s.slice(from, to) with 0-based offsets, 0 <= from, to <= length
slice(s, from, to) == SubSeq(s, from + 1, to)

\* issue.description ?? ""
descOrEmpty(d) == IF d = Undefined THEN <<>> ELSE d

\* The characters of an IssueStatus value.
StatusText(st) ==
    CASE st = "open" -> << "o", "p", "e", "n" >>
      [] st = "in_progress" -> << "i", "n", "_", "p", "r", "o", "g", "r", "e", "s", "s" >>
      [] st = "blocked" -> << "b", "l", "o", "c", "k", "e", "d" >>
      [] st = "deferred" -> << "d", "e", "f", "e", "r", "r", "e", "d" >>
      [] st = "closed" -> << "c", "l", "o", "s", "e", "d" >>

\* String(priority) for 0..4 and its inverse as `bd update --priority` reads it.
DigitText(n) == CASE n = 0 -> "0" [] n = 1 -> "1" [] n = 2 -> "2" [] n = 3 -> "3" [] n = 4 -> "4"
DigitOf(t) == CHOOSE n \in 0..4 : DigitText(n) = t

Min(a, b) == IF a <= b THEN a ELSE b
Max(a, b) == IF a >= b THEN a ELSE b

\* ---------------------------------------------------------------- preview
\* The placeholder of a record without description, and the mark of cut lines.
NoDescription ==
    << "(", "n", "o", " ", "d", "e", "s", "c", "r", "i", "p", "t", "i", "o", "n", ")" >>
Ellipsis == << ".", ".", "." >>

\* Lines of the preview window, the width before the first render, and the cap
\* on lines the scroll handler wraps.
previewLines == 7
initialWidth == 80
scrollCap == 100

RECURSIVE split(_, _)
\* String.prototype.split on a one-character separator
split(s, sep) ==
    IF \E i \in 1..Len(s) : s[i] = sep
    THEN LET i == CHOOSE k \in 1..Len(s) : s[k] = sep /\ \A j \in 1..(k - 1) : s[j] # sep
         IN << SubSeq(s, 1, i - 1) >> \o split(SubSeq(s, i + 1, Len(s)), sep)
    ELSE << s >>

truncateDescription(desc, maxLines) ==
    IF desc = Undefined \/ desc = <<>> \/ trim(desc) = <<>>
    THEN << NoDescription >>
    ELSE LET allLines == split(desc, NL)
         IN slice(allLines, 0, Min(Len(allLines), maxLines))
            \o (IF Len(allLines) > maxLines THEN << Ellipsis >> ELSE <<>>)

RECURSIVE chunkWord(_, _, _, _)
\* the while loop of wrapText that splits a word longer than the width; it
\* stops, with the word uncut, once the lines reach the cap
chunkWord(lines, remaining, safeWidth, maxLines) ==
    IF Len(remaining) > safeWidth
    THEN LET pushed == IF Len(lines) < maxLines
                       THEN Append(lines, slice(remaining, 0, safeWidth))
                       ELSE lines
         IN IF Len(pushed) >= maxLines
            THEN [lines |-> pushed, remaining |-> remaining]
            ELSE chunkWord(pushed, slice(remaining, safeWidth, Len(remaining)),
                           safeWidth, maxLines)
    ELSE [lines |-> lines, remaining |-> remaining]

RECURSIVE wrapWords(_, _, _, _, _)
\* the for loop of wrapText over the words and the push after it
wrapWords(words, lines, currentLine, safeWidth, maxLines) ==
    IF words = <<>>
    THEN IF currentLine # <<>> /\ Len(lines) < maxLines
         THEN Append(lines, currentLine) ELSE lines
    ELSE LET word == Head(words)
             candidate == IF currentLine # <<>>
                          THEN currentLine \o << " " >> \o word ELSE word
         IN IF Len(candidate) <= safeWidth
            THEN wrapWords(Tail(words), lines, candidate, safeWidth, maxLines)
            ELSE LET flushed == IF currentLine # <<>> /\ Len(lines) < maxLines
                                THEN Append(lines, currentLine) ELSE lines
                 IN IF currentLine # <<>> /\ Len(flushed) >= maxLines
                    THEN flushed
                    ELSE LET c == chunkWord(flushed, word, safeWidth, maxLines)
                         IN IF Len(c.lines) >= maxLines
                            THEN c.lines
                            ELSE wrapWords(Tail(words), c.lines, c.remaining,
                                           safeWidth, maxLines)

wrapTextWide(text, width, maxLines) ==
    LET safeWidth == width + 1
    IN IF Len(text) = 0 THEN << <<>> >>
       ELSE LET lines == wrapWords(split(text, " "), <<>>, <<>>, safeWidth, maxLines)
            IN slice(lines, 0, Min(Len(lines), IF maxLines > 0 THEN maxLines ELSE 0))

\* wrapText for text without ANSI sequences (stripAnsi leaves it as it is)
wrapText(text, width, maxLines) ==
    LET safeWidth == IF width > 1 THEN width ELSE 1
    IN IF Len(text) = 0 THEN << <<>> >>
       ELSE LET lines == wrapWords(split(text, " "), <<>>, <<>>, safeWidth, maxLines)
            IN slice(lines, 0, Min(Len(lines), IF maxLines > 0 THEN maxLines ELSE 0))

\* while (lines.length < 7) lines.push("")
padLines(lines) ==
    lines \o [i \in 1..(previewLines - Len(lines)) |-> <<>>]

RECURSIVE wrapUpTo(_, _, _)
\* the for loop of buildDescText
wrapUpTo(descLines, wrappedLines, width) ==
    IF descLines = <<>> THEN wrappedLines
    ELSE LET w == wrappedLines
                  \o wrapText(Head(descLines), width, previewLines - Len(wrappedLines))
         IN IF Len(w) >= previewLines THEN w ELSE wrapUpTo(Tail(descLines), w, width)

\* buildDescText: the preview text, held as its lines (joined by "\n" in the code)
buildDescText(descLines, width) == padLines(wrapUpTo(descLines, <<>>, width))

RECURSIVE wrapAll(_, _)
\* the for loop of the scroll handler: every line wrapped, up to 100 lines each
wrapAll(descLines, width) ==
    IF descLines = <<>> THEN <<>>
    ELSE wrapText(Head(descLines), width, scrollCap) \o wrapAll(Tail(descLines), width)

\* ---------------------------------------------------------------- keys
\* The keys that are pressed in any session.
KeyNames ==
    { "ESC", "CTRL_Q", "CTRL_F", "CTRL_C", "ENTER", "TAB", "BACKSPACE", "UP", "DOWN",
      "RIGHT", "LEFT", " ", "~", "0", "1", "3", "4", "5", "9", "a", "e", "E", "j", "k",
      "n", "q", "s", "S", "w", "W", "z",
      "HOME", "END", "DELETE", "SHIFT_ENTER", "ALT_ENTER" }

\* The char codes of the raw data each key delivers, as a table.
KeyTable ==
    [k \in KeyNames |->
        CASE k = "ESC" -> << 27 >>
          [] k = "CTRL_Q" -> << 17 >>
          [] k = "CTRL_F" -> << 6 >>
          [] k = "CTRL_C" -> << 3 >>
          [] k = "ENTER" -> << 13 >>
          [] k = "TAB" -> << 9 >>
          [] k = "BACKSPACE" -> << 127 >>
          [] k = "UP" -> << 27, 91, 65 >>
          [] k = "DOWN" -> << 27, 91, 66 >>
          [] k = "RIGHT" -> << 27, 91, 67 >>
          [] k = "LEFT" -> << 27, 91, 68 >>
          [] k = " " -> << 32 >>
          [] k = "~" -> << 126 >>
          [] k = "0" -> << 48 >>
          [] k = "4" -> << 52 >>
          [] k = "9" -> << 57 >>
          [] k = "E" -> << 69 >>
          [] k = "S" -> << 83 >>
          [] k = "W" -> << 87 >>
          [] k = "1" -> << 49 >>
          [] k = "3" -> << 51 >>
          [] k = "5" -> << 53 >>
          [] k = "a" -> << 97 >>
          [] k = "e" -> << 101 >>
          [] k = "j" -> << 106 >>
          [] k = "k" -> << 107 >>
          [] k = "n" -> << 110 >>
          [] k = "q" -> << 113 >>
          [] k = "s" -> << 115 >>
          [] k = "w" -> << 119 >>
          [] k = "z" -> << 122 >>
          [] k = "HOME" -> << 27, 91, 72 >>
          [] k = "END" -> << 27, 91, 70 >>
          [] k = "DELETE" -> << 27, 91, 51, 126 >>
          [] k = "SHIFT_ENTER" -> << 27, 91, 49, 51, 59, 50, 117 >>
          [] k = "ALT_ENTER" -> << 27, 13 >>]

KeyCodes(k) == KeyTable[k]

CTRL_F == "CTRL_F"
CTRL_Q == "CTRL_Q"

isPrintableAboveSpace(data) ==
    LET codes == KeyCodes(data)
    IN /\ Len(codes) = 1
       /\ codes[1] > 32
       /\ codes[1] < 127

isPrintable(data) ==
    LET codes == KeyCodes(data)
    IN /\ Len(codes) = 1
       /\ codes[1] >= 32
       /\ codes[1] < 127

parsePriorityKeyAnyDigit(data) ==
    IF Len(KeyCodes(data)) = 1 /\ KeyCodes(data)[1] >= 48 /\ KeyCodes(data)[1] <= 57
    THEN KeyCodes(data)[1] - 48 ELSE NoPriority

\* null is modelled by NoPriority
parsePriorityKey(data) ==
    IF Len(KeyCodes(data)) # 1 THEN NoPriority
    ELSE LET num == KeyCodes(data)[1] - 48
         IN IF KeyCodes(data)[1] >= 48 /\ KeyCodes(data)[1] <= 57 /\ num >= 0 /\ num <= 4
            THEN num ELSE NoPriority

\* ---------------------------------------------------------------- intents
Intent(t) == [type |-> t, delta |-> 0, priority |-> NoPriority, value |-> ""]

\* matchesKey(data, Key.x) of the toolkit: the data is that key's sequence.
matchesKey(data, key) == data = key

resolveSearchBeforeCancel(data, state) ==
    IF state.searching THEN
        IF matchesKey(data, "ENTER") THEN Intent("searchApply")
        ELSE IF matchesKey(data, "BACKSPACE") THEN Intent("searchBackspace")
        ELSE IF isPrintable(data) THEN [Intent("searchAppend") EXCEPT !.value = data]
        ELSE Intent("delegate")
    ELSE IF data = state.ctrlQ \/ matchesKey(data, "ESC") THEN Intent("cancel")
    ELSE IF state.allowSearch /\ data = state.ctrlF THEN Intent("searchStart")
    ELSE IF data = "w" \/ data = "W" THEN [Intent("moveSelection") EXCEPT !.delta = -1]
    ELSE IF data = "s" \/ data = "S" THEN [Intent("moveSelection") EXCEPT !.delta = 1]
    ELSE IF matchesKey(data, "ENTER") THEN Intent("work")
    ELSE IF data = "e" \/ data = "E" THEN Intent("edit")
    ELSE IF data = " " THEN Intent("toggleStatus")
    ELSE IF state.allowPriority /\ parsePriorityKey(data) # NoPriority
        THEN [Intent("setPriority") EXCEPT !.priority = parsePriorityKey(data)]
    ELSE IF data = "j" \/ data = "k"
        THEN [Intent("scrollDescription") EXCEPT !.delta = IF data = "j" THEN 1 ELSE -1]
    ELSE Intent("delegate")

resolveListIntent(data, state) ==
    IF data = state.ctrlQ \/ matchesKey(data, "ESC") THEN Intent("cancel")
    ELSE IF state.searching THEN
        IF matchesKey(data, "ENTER") THEN Intent("searchApply")
        ELSE IF matchesKey(data, "BACKSPACE") THEN Intent("searchBackspace")
        ELSE IF isPrintable(data) THEN [Intent("searchAppend") EXCEPT !.value = data]
        ELSE Intent("delegate")
    ELSE IF state.allowSearch /\ data = state.ctrlF THEN Intent("searchStart")
    ELSE IF data = "w" \/ data = "W" THEN [Intent("moveSelection") EXCEPT !.delta = -1]
    ELSE IF data = "s" \/ data = "S" THEN [Intent("moveSelection") EXCEPT !.delta = 1]
    ELSE IF matchesKey(data, "ENTER") THEN Intent("work")
    ELSE IF data = "e" \/ data = "E" THEN Intent("edit")
    ELSE IF data = " " THEN Intent("toggleStatus")
    ELSE IF state.allowPriority /\ parsePriorityKey(data) # NoPriority
        THEN [Intent("setPriority") EXCEPT !.priority = parsePriorityKey(data)]
    ELSE IF data = "j" \/ data = "k"
        THEN [Intent("scrollDescription") EXCEPT !.delta = IF data = "j" THEN 1 ELSE -1]
    ELSE Intent("delegate")

\* ---------------------------------------------------------------- records
CYCLE_STATUSES == << "open", "in_progress", "closed" >>

cycleStatusKeepsOthers(current) ==
    IF \A i \in 1..Len(CYCLE_STATUSES) : CYCLE_STATUSES[i] # current THEN current
    ELSE LET idx == (CHOOSE i \in 1..Len(CYCLE_STATUSES) : CYCLE_STATUSES[i] = current) - 1
         IN CYCLE_STATUSES[((idx + 1) % Len(CYCLE_STATUSES)) + 1]

cycleStatus(current) ==
    IF \A i \in 1..Len(CYCLE_STATUSES) : CYCLE_STATUSES[i] # current THEN "open"
    ELSE LET idx == (CHOOSE i \in 1..Len(CYCLE_STATUSES) : CYCLE_STATUSES[i] = current) - 1
         IN CYCLE_STATUSES[((idx + 1) % Len(CYCLE_STATUSES)) + 1]

matchesFilterCaseSensitive(issue, term) ==
    \/ includes(issue.title, term)
    \/ includes(descOrEmpty(issue.description), term)
    \/ includes(issue.id, term)
    \/ includes(StatusText(issue.status), term)

matchesFilter(issue, term) ==
    LET lower == toLowerCase(term)
    IN \/ includes(toLowerCase(issue.title), lower)
       \/ includes(toLowerCase(descOrEmpty(issue.description)), lower)
       \/ includes(toLowerCase(issue.id), lower)
       \/ includes(toLowerCase(StatusText(issue.status)), lower)

RECURSIVE filterSeq(_, _)
filterSeq(issues, term) ==
    IF issues = <<>> THEN <<>>
    ELSE IF matchesFilter(Head(issues), term)
         THEN << Head(issues) >> \o filterSeq(Tail(issues), term)
         ELSE filterSeq(Tail(issues), term)

visibleOfUnfiltered(issues, term) == issues

\* filterTerm ? displayIssues.filter(i => matchesFilter(i, filterTerm)) : displayIssues
visibleOf(issues, term) == IF term # <<>> THEN filterSeq(issues, term) ELSE issues

\* getItems: the ids (item values) of the visible records, in order
getItems(issues, term) ==
    LET v == visibleOf(issues, term) IN [i \in 1..Len(v) |-> v[i].id]

\* Array.prototype.findIndex on ids, 0-based, -1 when absent
findIndex(ids, id) ==
    IF \E i \in 1..Len(ids) : ids[i] = id
    THEN (CHOOSE i \in 1..Len(ids) : ids[i] = id /\ \A j \in 1..(i - 1) : ids[j] # id) - 1
    ELSE -1

idsOf(issues) == [i \in 1..Len(issues) |-> issues[i].id]

\* ---------------------------------------------------------------- state
VARIABLES
    pc,                   \* where the command is: loading, list, show, edit, save*, done
    viaList,              \* editIssue was entered from showIssueList (else from `/beads <id>`)
    statusBar,            \* ctx.ui.setStatus("beads", ...)
    notes,                \* ctx.ui.notify calls made by the last step
    sent,                 \* pi.sendUserMessage calls made so far
    remote,               \* the issue store behind `bd`
    inflight,             \* un-awaited `bd update` calls not yet completed
    displayIssues,        \* showIssueList: local copy of the records
    filterTerm,
    rememberedSelectedId,
    selectedId,
    searching,
    searchBuffer,
    items,                \* item values of the current SelectList
    selectedIndex,        \* SelectList.selectedIndex (0-based)
    wired,                \* which callbacks the current SelectList carries
    writes,               \* un-awaited updates issued so far
    descScroll,           \* first wrapped line of the description the preview shows
    lastWidth,            \* width of the last render
    descText,             \* lines of descTextComponent's text
    issue,                \* editIssue: the record fetched by showIssue
    titleValue,
    descValue,
    statusValue,
    priorityValue,
    focused,
    titleCursor,
    descCursor,
    hasUI,                \* ctx.hasUI of a tool execution or tool_call event
    params,               \* ask_user: the tool call's parameters
    askSelectedIndex,     \* ask_user selector: selectedIndex
    mode,                 \* ask_user selector: "select" or "detail"
    detailCursor,
    additionalByIndex,    \* ask_user selector: Map of choice index to typed detail
    askReturn,            \* what ask_user's execute returned
    extension,            \* which extension's tool_call handler runs
    event,                \* the tool_call event
    verdict               \* what the tool_call handler returned

remoteVars == << remote, inflight >>
listVars == << displayIssues, filterTerm, rememberedSelectedId, selectedId,
               searching, searchBuffer, items, selectedIndex, wired, writes,
               descScroll, lastWidth, descText >>
formVars == << issue, titleValue, descValue, statusValue, priorityValue,
               focused, titleCursor, descCursor >>
askVars == << params, askSelectedIndex, mode, detailCursor, additionalByIndex, askReturn >>
gateVars == << extension, event, verdict >>
toolVars == << hasUI, askVars, gateVars >>
vars == << pc, toolVars, viaList, statusBar, notes, sent, remoteVars, listVars, formVars, toolVars >>

\* No tool is executing and no tool_call event is being handled.
NoParams == [question |-> <<>>, choices |-> <<>>,
             allowAdditionalText |-> "undefined", canCancel |-> "undefined"]
NoReturn == [content |-> "none"]
NoEvent == [toolName |-> "none", input |-> <<>>]
NoVerdict == [block |-> FALSE, reason |-> << "pending" >>]
toolsIdle ==
    /\ hasUI = TRUE
    /\ params = NoParams
    /\ askSelectedIndex = 0
    /\ mode = "select"
    /\ detailCursor = 0
    /\ additionalByIndex = << >>
    /\ askReturn = NoReturn
    /\ extension = "none"
    /\ event = NoEvent
    /\ verdict = NoVerdict

Issue(id, title, description, status, priority) ==
    [id |-> id, title |-> title, description |-> description,
     status |-> status, priority |-> priority]

NoIssue == Issue(Undefined, <<>>, Undefined, "open", NoPriority)

\* The store `bd` answers from when the list command starts.
ListStore ==
    << Issue(<< "x", "-", "1" >>, << "A" >>, Undefined, "open", 2),
       Issue(<< "x", "-", "2" >>, << "b" >>, << "a" >>, "closed", NoPriority) >>

\* Keys pressed while browsing the list, while typing a search, and in the form
\* when it was opened from the list.
BrowseKeys == { "ESC", "CTRL_Q", "CTRL_F", "CTRL_C", "ENTER", "DOWN",
                "w", "s", "e", " ", "3" }
SearchKeys == { "ESC", "ENTER", "BACKSPACE", "CTRL_C", "s", " " }
FormKeys == { "TAB", "ESC", "q", "CTRL_C", "ENTER", "BACKSPACE" }

\* The issues `/beads <id>` is run on, and the keys pressed in its form.
EditStore ==
    { << Issue(<< "x", "-", "1" >>, << "A" >>, Undefined, "open", 2) >>,
      << Issue(<< "x", "-", "1" >>, << "b" >>, << "a", NL, "b" >>, "blocked", NoPriority) >> }
EditKeys == { "TAB", "ESC", "q", "CTRL_C", "ENTER", "BACKSPACE", "LEFT", "RIGHT",
              "UP", "DOWN", " " }

\* The keys pressed in that form while the focus is on `f`: a priority digit is
\* pressed on nav only.
EditKeysIn(f) == IF f = "nav" THEN EditKeys \cup { "3" } ELSE EditKeys

allowPriority == TRUE
allowSearch == TRUE

FormBlank ==
    /\ issue' = NoIssue
    /\ titleValue' = <<>>
    /\ descValue' = <<>>
    /\ statusValue' = "open"
    /\ priorityValue' = NoPriority
    /\ focused' = "nav"
    /\ titleCursor' = 0
    /\ descCursor' = 0

Init ==
    /\ toolsIdle
    /\ pc = "loading"
    /\ viaList = TRUE
    /\ statusBar = "Loading"
    /\ notes = {}
    /\ sent = <<>>
    /\ remote = ListStore
    /\ inflight = <<>>
    /\ displayIssues = <<>>
    /\ filterTerm = <<>>
    /\ rememberedSelectedId = Undefined
    /\ selectedId = Undefined
    /\ searching = FALSE
    /\ searchBuffer = <<>>
    /\ items = <<>>
    /\ selectedIndex = 0
    /\ wired = "none"
    /\ writes = 0
    /\ descScroll = 0
    /\ lastWidth = initialWidth
    /\ descText = <<>>
    /\ issue = NoIssue
    /\ titleValue = <<>>
    /\ descValue = <<>>
    /\ statusValue = "open"
    /\ priorityValue = NoPriority
    /\ focused = "nav"
    /\ titleCursor = 0
    /\ descCursor = 0

\* ---------------------------------------------------------------- list session
\* selectList.getSelectedItem()
getSelectedItem(its, index) ==
    IF index >= 0 /\ index < Len(its) THEN its[index + 1] ELSE Undefined

\* The index a fresh SelectList ends with after restoring `wanted` (0 when absent).
restoreIndex(its, wanted) ==
    IF wanted # Undefined /\ findIndex(its, wanted) >= 0 THEN findIndex(its, wanted) ELSE 0

\* descScroll after updateDescPreview on the list `its` with `index` selected
scrollAfter(its, index) ==
    IF getSelectedItem(its, index) # Undefined THEN 0 ELSE descScroll

\* descTextComponent's text after updateDescPreview, wrapped at `width`
previewAfter(its, index, issues, width, text) ==
    LET selected == getSelectedItem(its, index)
        pos == findIndex(idsOf(issues), selected) + 1
    IN IF selected # Undefined /\ pos > 0
       THEN buildDescText(truncateDescription(issues[pos].description, scrollCap), width)
       ELSE text

updateDescPreview(its, index, issues) ==
    /\ descScroll' = scrollAfter(its, index)
    /\ descText' = previewAfter(its, index, issues, lastWidth, descText)
    /\ UNCHANGED lastWidth

\* the component is gone, and with it its closure variables
previewGone ==
    /\ descScroll' = 0
    /\ lastWidth' = initialWidth
    /\ descText' = <<>>

\* One pass of the while loop of showIssueList up to the custom component's
\* construction: the empty-view check, getItems, the fresh SelectList.
OpenList(issues, term, remembered, said) ==
    LET empty == visibleOf(issues, term) = <<>>
        term2 == IF empty THEN <<>> ELSE term
        its == getItems(issues, term2)
    IN /\ pc' = "list"
       /\ displayIssues' = issues
       /\ filterTerm' = term2
       /\ rememberedSelectedId' = remembered
       /\ selectedId' = Undefined
       /\ searching' = FALSE
       /\ searchBuffer' = <<>>
       /\ items' = its
       /\ selectedIndex' = restoreIndex(its, remembered)
       /\ wired' = "initial"
       /\ descScroll' = 0
       /\ lastWidth' = initialWidth
       /\ descText' =
             IF its # <<>>
             THEN previewAfter(its, restoreIndex(its, remembered), issues, initialWidth,
                               buildDescText(<<>>, initialWidth))
             ELSE buildDescText(<<>>, initialWidth)
       /\ UNCHANGED writes
       /\ notes' = said \cup (IF empty THEN {"warning: No matches"} ELSE {})

rebuildKeepsItems(issues, term) ==
    /\ items' = items
    /\ selectedIndex' = selectedIndex
    /\ wired' = "rebuilt"
    /\ updateDescPreview(items, selectedIndex, issues)

\* rebuildAndRender: fresh items and SelectList, previous selection restored.
rebuildAndRender(issues, term) ==
    LET its == getItems(issues, term)
    IN /\ items' = its
       /\ selectedIndex' = restoreIndex(its, getSelectedItem(items, selectedIndex))
       /\ wired' = "rebuilt"
       /\ updateDescPreview(its, restoreIndex(its, getSelectedItem(items, selectedIndex)),
                             issues)

\* browseIssues: listIssues resolved
FetchResolve ==
    /\ pc = "loading"
    /\ statusBar' = "none"
    /\ IF Len(remote) = 0
       THEN /\ pc' = "done"
            /\ notes' = {"info: No issues found"}
            /\ UNCHANGED listVars
       ELSE OpenList(remote, <<>>, Undefined, {})
    /\ UNCHANGED << toolVars, viaList, sent, remoteVars, formVars >>

FetchRejectKeepsStatus ==
    /\ pc = "loading"
    /\ notes' = {"error"}
    /\ pc' = "done"
    /\ UNCHANGED << toolVars, viaList, sent, statusBar, remoteVars, listVars, formVars >>

\* browseIssues: listIssues threw
FetchReject ==
    /\ pc = "loading"
    /\ statusBar' = "none"
    /\ notes' = {"error"}
    /\ pc' = "done"
    /\ UNCHANGED << toolVars, viaList, sent, remoteVars, listVars, formVars >>

ListState ==
    [searching |-> searching, allowSearch |-> allowSearch,
     allowPriority |-> allowPriority, ctrlQ |-> CTRL_Q, ctrlF |-> CTRL_F]

\* 1-based position in displayIssues of the record getSelectedIssue() returns, 0 if none
selectedPos ==
    findIndex(idsOf(displayIssues), getSelectedItem(items, selectedIndex)) + 1

\* getSelectedIssue's side effect on rememberedSelectedId
rememberSelected ==
    IF getSelectedItem(items, selectedIndex) # Undefined
    THEN getSelectedItem(items, selectedIndex) ELSE rememberedSelectedId

\* done("cancel"): ctx.ui.custom resolves, showIssueList returns at `result === "cancel"`
\* the component and its closure variables are gone afterwards
doneCancel ==
    /\ pc' = "done"
    /\ searching' = FALSE
    /\ searchBuffer' = <<>>
    /\ items' = <<>>
    /\ selectedIndex' = 0
    /\ wired' = "none"
    /\ previewGone
    /\ UNCHANGED << displayIssues, filterTerm, selectedId >>

\* an un-awaited updateIssue(id, [flag, value])
issueUpdateTwice(calls, id, flag, value) ==
    calls \o << [id |-> id, flag |-> flag, value |-> value],
                [id |-> id, flag |-> flag, value |-> value] >>

\* updateIssue(id, [flag, value]) called without await: one more call in flight
issueUpdate(calls, id, flag, value) ==
    Append(calls, [id |-> id, flag |-> flag, value |-> value])

\* issue.status = newStatus on the selected record
withStatusAll(issues, pos, st) == [k \in 1..Len(issues) |-> [issues[k] EXCEPT !.status = st]]

withStatus(issues, pos, st) == [issues EXCEPT ![pos].status = st]

withPriorityDeferred(issues, pos, p) == issues

withPriorityRaised(issues, pos, p) == [issues EXCEPT ![pos].priority = p + 1]

\* issue.priority = intent.priority on the selected record
withPriority(issues, pos, p) == [issues EXCEPT ![pos].priority = p]

nextIndexClamped(its, index, delta) ==
    IF index + delta < 0 THEN 0
    ELSE IF index + delta >= Len(its) THEN Len(its) - 1
    ELSE index + delta

\* (normalizedIndex + delta + items.length) % items.length
nextIndex(its, index, delta) ==
    LET sel == getSelectedItem(its, index)
        currentIndex == IF sel # Undefined THEN findIndex(its, sel) ELSE 0
        normalizedIndex == IF currentIndex >= 0 THEN currentIndex ELSE 0
    IN (normalizedIndex + delta + Len(its)) % Len(its)

OnCancel(intent) ==
    /\ intent.type = "cancel"
    /\ doneCancel
    /\ UNCHANGED << rememberedSelectedId, inflight, sent >>

OnSearchStart(intent) ==
    /\ intent.type = "searchStart"
    /\ searching' = TRUE
    /\ searchBuffer' = <<>>
    /\ UNCHANGED << pc, displayIssues, filterTerm, rememberedSelectedId, selectedId,
                    items, selectedIndex, wired, inflight, sent, descScroll, lastWidth, descText >>

OnSearchApplyUntrimmed(intent) ==
    /\ intent.type = "searchApply"
    /\ filterTerm' = searchBuffer
    /\ searching' = FALSE
    /\ rebuildAndRender(displayIssues, filterTerm')
    /\ UNCHANGED << pc, displayIssues, rememberedSelectedId, selectedId, searchBuffer,
                    inflight, sent >>

OnSearchApply(intent) ==
    /\ intent.type = "searchApply"
    /\ filterTerm' = trim(searchBuffer)
    /\ searching' = FALSE
    /\ rebuildAndRender(displayIssues, filterTerm')
    /\ UNCHANGED << pc, displayIssues, rememberedSelectedId, selectedId, searchBuffer,
                    inflight, sent >>

OnSearchBackspace(intent) ==
    /\ intent.type = "searchBackspace"
    /\ searchBuffer' = slice(searchBuffer, 0, IF Len(searchBuffer) > 0 THEN Len(searchBuffer) - 1 ELSE 0)
    /\ UNCHANGED << pc, displayIssues, filterTerm, rememberedSelectedId, selectedId,
                    searching, items, selectedIndex, wired, inflight, sent, descScroll, lastWidth, descText >>

OnSearchAppend(intent) ==
    /\ intent.type = "searchAppend"
    /\ Len(searchBuffer) < MaxSearch
    /\ searchBuffer' = Append(searchBuffer, intent.value)
    /\ UNCHANGED << pc, displayIssues, filterTerm, rememberedSelectedId, selectedId,
                    searching, items, selectedIndex, wired, inflight, sent, descScroll, lastWidth, descText >>

OnMoveSelection(intent) ==
    /\ intent.type = "moveSelection"
    /\ selectedIndex' = IF Len(items) = 0 THEN selectedIndex
                        ELSE nextIndex(items, selectedIndex, intent.delta)
    /\ IF Len(items) = 0 THEN UNCHANGED << descScroll, lastWidth, descText >>
       ELSE updateDescPreview(items, selectedIndex', displayIssues)
    /\ UNCHANGED << pc, displayIssues, filterTerm, rememberedSelectedId, selectedId,
                    searching, searchBuffer, items, wired, inflight, sent >>

buildWorkPromptNoContext(iss) ==
    << << "Work on Beads task ", iss.id, ": ", iss.title >>,
       <<>>,
       << "Status: ", iss.status >>,
       << "Priority: ",
          IF iss.priority = NoPriority THEN "unknown" ELSE DigitText(iss.priority) >> >>

\* buildWorkPrompt: the prompt as its lines (joined by "\n" in the code), each
\* line as the pieces the template puts together
buildWorkPrompt(iss) ==
    << << "Work on Beads task ", iss.id, ": ", iss.title >>,
       <<>>,
       << "Status: ", iss.status >>,
       << "Priority: ",
          IF iss.priority = NoPriority THEN "unknown" ELSE DigitText(iss.priority) >> >>
    \o (IF iss.description # Undefined /\ iss.description # <<>>
           /\ trim(iss.description) # <<>>
        THEN << <<>>, << "Context:" >>, << trim(iss.description) >> >>
        ELSE <<>>)

\* done("cancel") then pi.sendUserMessage(buildWorkPrompt(issue))
OnWork(intent) ==
    /\ intent.type = "work"
    /\ rememberedSelectedId' = rememberSelected
    /\ IF selectedPos > 0
       THEN /\ doneCancel
            /\ sent' = Append(sent, buildWorkPrompt(displayIssues[selectedPos]))
       ELSE UNCHANGED << pc, displayIssues, filterTerm, selectedId, searching,
                         searchBuffer, items, selectedIndex, wired, sent, descScroll, lastWidth, descText >>
    /\ UNCHANGED inflight

\* selectedId = issue.id; done("select"); then editIssue starts with showIssue
OnEdit(intent) ==
    /\ intent.type = "edit"
    /\ rememberedSelectedId' = rememberSelected
    /\ IF selectedPos > 0
       THEN /\ selectedId' = displayIssues[selectedPos].id
            /\ pc' = "show"
            /\ searchBuffer' = <<>>
            /\ items' = <<>>
            /\ selectedIndex' = 0
            /\ wired' = "none"
            /\ previewGone
       ELSE UNCHANGED << pc, selectedId, searchBuffer, items, selectedIndex, wired,
                         descScroll, lastWidth, descText >>
    /\ UNCHANGED << displayIssues, filterTerm, searching, inflight, sent >>

OnToggleStatus(intent) ==
    /\ intent.type = "toggleStatus"
    /\ rememberedSelectedId' = rememberSelected
    /\ IF selectedPos > 0
       THEN LET newStatus == cycleStatus(displayIssues[selectedPos].status)
            IN /\ writes < MaxWrites
               /\ displayIssues' = withStatus(displayIssues, selectedPos, newStatus)
               /\ inflight' = issueUpdate(inflight, displayIssues[selectedPos].id,
                                          "--status", newStatus)
               /\ rebuildAndRender(displayIssues', filterTerm)
       ELSE UNCHANGED << displayIssues, inflight, items, selectedIndex, wired,
                         descScroll, lastWidth, descText >>
    /\ UNCHANGED << pc, filterTerm, selectedId, searching, searchBuffer, sent >>

OnSetPriority(intent) ==
    /\ intent.type = "setPriority"
    /\ rememberedSelectedId' = rememberSelected
    /\ IF selectedPos > 0 /\ displayIssues[selectedPos].priority # intent.priority
       THEN /\ writes < MaxWrites
            /\ displayIssues' = withPriority(displayIssues, selectedPos, intent.priority)
            /\ inflight' = issueUpdate(inflight, displayIssues[selectedPos].id,
                                       "--priority", DigitText(intent.priority))
            /\ rebuildAndRender(displayIssues', filterTerm)
       ELSE UNCHANGED << displayIssues, inflight, items, selectedIndex, wired,
                         descScroll, lastWidth, descText >>
    /\ UNCHANGED << pc, filterTerm, selectedId, searching, searchBuffer, sent >>

\* allWrapped.slice(descScroll, descScroll + 7), padded to 7 lines
windowOf(allWrapped, scroll) ==
    padLines(slice(allWrapped, scroll, Min(scroll + previewLines, Len(allWrapped))))

\* descScroll after one scroll step by delta over allWrapped
scrolled(allWrapped, scroll, delta) ==
    LET maxScroll == IF Len(allWrapped) - previewLines > 0
                     THEN Len(allWrapped) - previewLines ELSE 0
    IN IF delta > 0 /\ scroll < maxScroll THEN scroll + 1
       ELSE IF delta < 0 /\ scroll > 0 THEN scroll - 1
       ELSE scroll

OnScrollDescription(intent) ==
    /\ intent.type = "scrollDescription"
    /\ rememberedSelectedId' = rememberSelected
    /\ IF selectedPos > 0
       THEN LET descLines == truncateDescription(displayIssues[selectedPos].description,
                                                scrollCap)
                allWrapped == wrapAll(descLines, lastWidth)
            IN /\ descScroll' = scrolled(allWrapped, descScroll, intent.delta)
               /\ descText' = windowOf(allWrapped, descScroll')
       ELSE UNCHANGED << descScroll, descText >>
    /\ UNCHANGED << pc, displayIssues, filterTerm, selectedId, searching, searchBuffer,
                    items, selectedIndex, wired, inflight, sent, lastWidth >>

\* selectList.onCancel of the SelectList built with the component
onCancelInitial ==
    IF filterTerm # <<>>
    THEN /\ filterTerm' = <<>>
         /\ items' = getItems(displayIssues, <<>>)
         /\ selectedIndex' = 0
         /\ wired' = "none"
         /\ UNCHANGED << pc, descScroll, lastWidth, descText >>
    ELSE /\ pc' = "done"
         /\ UNCHANGED << filterTerm, items, selectedIndex, wired, descScroll, lastWidth, descText >>

\* selectList.onCancel installed by rebuildAndRender
onCancelRebuilt ==
    IF filterTerm # <<>>
    THEN /\ filterTerm' = <<>>
         /\ rebuildAndRender(displayIssues, <<>>)
         /\ UNCHANGED pc
    ELSE /\ pc' = "done"
         /\ UNCHANGED << filterTerm, items, selectedIndex, wired, descScroll, lastWidth, descText >>

\* selectList.handleInput(data): arrows move the selection (wrapping) and call
\* onSelectionChange, Ctrl+C calls onCancel, when the callback is set.
OnDelegate(intent, data) ==
    /\ intent.type = "delegate"
    /\ IF data \in {"UP", "DOWN"} /\ Len(items) > 0
       THEN /\ selectedIndex' =
                  IF data = "UP"
                  THEN (IF selectedIndex = 0 THEN Len(items) - 1 ELSE selectedIndex - 1)
                  ELSE (IF selectedIndex = Len(items) - 1 THEN 0 ELSE selectedIndex + 1)
            /\ rememberedSelectedId' =
                  IF wired # "none" THEN getSelectedItem(items, selectedIndex')
                  ELSE rememberedSelectedId
            /\ IF wired # "none"
               THEN updateDescPreview(items, selectedIndex', displayIssues)
               ELSE UNCHANGED << descScroll, lastWidth, descText >>
            /\ UNCHANGED << pc, filterTerm, items, wired >>
       ELSE IF data = "CTRL_C" /\ wired = "initial"
       THEN onCancelInitial /\ UNCHANGED rememberedSelectedId
       ELSE IF data = "CTRL_C" /\ wired = "rebuilt"
       THEN onCancelRebuilt /\ UNCHANGED rememberedSelectedId
       ELSE UNCHANGED << pc, filterTerm, items, selectedIndex, wired, rememberedSelectedId,
                         descScroll, lastWidth, descText >>
    /\ UNCHANGED << displayIssues, selectedId, searching, searchBuffer, inflight, sent >>

\* handleInput of the list component
HandleInput(data) ==
    /\ pc = "list"
    /\ LET intent == resolveListIntent(data, ListState)
       IN /\ \/ OnCancel(intent)
             \/ OnSearchStart(intent)
             \/ OnSearchApply(intent)
             \/ OnSearchBackspace(intent)
             \/ OnSearchAppend(intent)
             \/ OnMoveSelection(intent)
             \/ OnWork(intent)
             \/ OnEdit(intent)
             \/ OnToggleStatus(intent)
             \/ OnSetPriority(intent)
             \/ OnScrollDescription(intent)
             \/ OnDelegate(intent, data)
    /\ writes' = writes + (Len(inflight') - Len(inflight))
    /\ notes' = {}
    /\ UNCHANGED << toolVars, viaList, statusBar, remote, formVars >>

\* render of the list component at width w
Render(w) ==
    /\ pc = "list"
    /\ lastWidth' = w
    /\ notes' = {}
    /\ UNCHANGED << pc, toolVars, viaList, statusBar, sent, remoteVars, displayIssues, filterTerm,
                    rememberedSelectedId, selectedId, searching, searchBuffer, items,
                    selectedIndex, wired, writes, descScroll, descText, formVars >>

\* The keys pressed on the list in the current mode.
ListKeys == IF searching THEN SearchKeys ELSE BrowseKeys

\* ---------------------------------------------------------------- remote store
\* `bd update <id> <flag> <value>` carried out by the store
applyUpdate(store, id, flag, value) ==
    [i \in 1..Len(store) |->
        IF store[i].id # id THEN store[i]
        ELSE CASE flag = "--title" -> [store[i] EXCEPT !.title = value]
               [] flag = "--description" -> [store[i] EXCEPT !.description = value]
               [] flag = "--status" -> [store[i] EXCEPT !.status = value]
               [] flag = "--priority" -> [store[i] EXCEPT !.priority = DigitOf(value)]]

without(calls, i) == SubSeq(calls, 1, i - 1) \o SubSeq(calls, i + 1, Len(calls))

\* An un-awaited updateIssue resolves: execBd returned exit code 0.
UpdateResolve(i) ==
    /\ i \in 1..Len(inflight)
    /\ remote' = applyUpdate(remote, inflight[i].id, inflight[i].flag, inflight[i].value)
    /\ inflight' = without(inflight, i)
    /\ notes' = {}
    /\ UNCHANGED << pc, toolVars, viaList, sent, statusBar, listVars, formVars >>

UpdateRejectRollsBack(i) ==
    /\ i \in 1..Len(inflight)
    /\ inflight' = without(inflight, i)
    /\ displayIssues' =
          [k \in 1..Len(displayIssues) |->
              IF displayIssues[k].id # inflight[i].id THEN displayIssues[k]
              ELSE [displayIssues[k] EXCEPT
                      !.status = remote[findIndex(idsOf(remote), inflight[i].id) + 1].status,
                      !.priority = remote[findIndex(idsOf(remote), inflight[i].id) + 1].priority]]
    /\ notes' = {"error"}
    /\ UNCHANGED << pc, toolVars, viaList, sent, statusBar, remote, filterTerm, rememberedSelectedId,
                    selectedId, searching, searchBuffer, items, selectedIndex, wired,
                    writes, descScroll, lastWidth, descText, formVars >>

\* An un-awaited updateIssue rejects: execBd threw, and nothing awaits or catches
\* the promise, so no handler of this program runs.
UpdateReject(i) ==
    /\ i \in 1..Len(inflight)
    /\ inflight' = without(inflight, i)
    /\ notes' = {}
    /\ UNCHANGED << pc, toolVars, viaList, sent, statusBar, remote, listVars, formVars >>

\* ---------------------------------------------------------------- edit form
\* editIssue returns (null on cancel, the issue on save) to its caller:
\* showIssueList merges and loops, the `/beads <id>` handler just ends.
ReturnFromEdit(updated, isNull, said) ==
    /\ IF viaList
       THEN LET idx == findIndex(idsOf(displayIssues), selectedId)
                merged == IF ~isNull /\ idx # -1
                          THEN [displayIssues EXCEPT ![idx + 1] = updated]
                          ELSE displayIssues
            IN OpenList(merged, filterTerm, rememberedSelectedId, said)
       ELSE /\ pc' = "done"
            /\ notes' = said
            /\ UNCHANGED listVars
    /\ FormBlank

\* A throw out of editIssue: browseIssues' catch, or the command handler's.
ThrowFromEditMerges ==
    /\ pc' = "done"
    /\ statusBar' = "none"
    /\ notes' = {"error"}
    /\ FormBlank
    /\ displayIssues' = [k \in 1..Len(displayIssues) |->
                            IF displayIssues[k].id = selectedId THEN issue
                            ELSE displayIssues[k]]
    /\ UNCHANGED << toolVars, viaList, sent, filterTerm, rememberedSelectedId, selectedId, searching,
                    searchBuffer, items, selectedIndex, wired, writes, descScroll,
                    lastWidth, descText >>

\* an error thrown in editIssue: out of showIssueList's loop (or of the command
\* handler) into the catch that clears the status and notifies
ThrowFromEdit ==
    /\ pc' = "done"
    /\ statusBar' = "none"
    /\ notes' = {"error"}
    /\ FormBlank
    /\ UNCHANGED << toolVars, viaList, sent, listVars >>

\* showIssue resolved: the form opens on the fetched record
ShowResolve ==
    /\ pc = "show"
    /\ LET idx == findIndex(idsOf(remote), selectedId)
       IN IF idx = -1
          THEN ThrowFromEdit
          ELSE LET got == remote[idx + 1]
               IN /\ pc' = "edit"
                  /\ issue' = got
                  /\ titleValue' = got.title
                  /\ descValue' = descOrEmpty(got.description)
                  /\ statusValue' = got.status
                  /\ priorityValue' = got.priority
                  /\ focused' = "nav"
                  /\ titleCursor' = Len(got.title)
                  /\ descCursor' = Len(descOrEmpty(got.description))
                  /\ notes' = {}
                  /\ UNCHANGED << toolVars, viaList, sent, statusBar, listVars >>
    /\ UNCHANGED remoteVars

\* showIssue threw
ShowReject ==
    /\ pc = "show"
    /\ ThrowFromEdit
    /\ UNCHANGED remoteVars

RECURSIVE scanBack(_, _)
\* while (p > 0 && v[p - 1] !== "\n") p--
scanBack(v, p) == IF p > 0 /\ v[p] # NL THEN scanBack(v, p - 1) ELSE p

RECURSIVE scanForward(_, _)
\* while (p < v.length && v[p] !== "\n") p++
scanForward(v, p) == IF p < Len(v) /\ v[p + 1] # NL THEN scanForward(v, p + 1) ELSE p

moveUpKeepsColumn(v, cursor) ==
    LET lineStart == scanBack(v, cursor)
    IN IF lineStart > 0
       THEN scanBack(v, lineStart - 1) + (cursor - lineStart)
       ELSE cursor

\* Key.up in the description
moveUp(v, cursor) ==
    LET lineStart == scanBack(v, cursor)
    IN IF lineStart > 0
       THEN LET prevLineStart == scanBack(v, lineStart - 1)
                colInLine == cursor - lineStart
                prevLineLen == lineStart - 1 - prevLineStart
            IN prevLineStart + Min(colInLine, prevLineLen)
       ELSE cursor

moveDownToLineStart(v, cursor) ==
    LET nextLineStart == scanForward(v, scanBack(v, cursor)) + 1
    IN IF nextLineStart < Len(v) THEN nextLineStart ELSE cursor

\* Key.down in the description
moveDown(v, cursor) ==
    LET lineStart == scanBack(v, cursor)
        colInLine == cursor - lineStart
        nextLineStart == scanForward(v, lineStart) + 1
    IN IF nextLineStart < Len(v)
       THEN LET nextLineEnd == scanForward(v, nextLineStart)
                nextLineLen == nextLineEnd - nextLineStart
            IN nextLineStart + Min(colInLine, nextLineLen)
       ELSE cursor

Field(v, c) == [value |-> v, cursor |-> c]

backspaceKeepsCursor(v, cursor) ==
    IF cursor > 0
    THEN Field(slice(v, 0, cursor - 1) \o slice(v, cursor, Len(v)), cursor)
    ELSE Field(v, cursor)

\* Key.backspace && cursor > 0: value.slice(0, cursor - 1) + value.slice(cursor); cursor--
backspace(v, cursor) ==
    IF cursor > 0
    THEN Field(slice(v, 0, cursor - 1) \o slice(v, cursor, Len(v)), cursor - 1)
    ELSE Field(v, cursor)

\* Key.left && cursor > 0: cursor--
moveLeft(v, cursor) == IF cursor > 0 THEN Field(v, cursor - 1) ELSE Field(v, cursor)

\* Key.right && cursor < value.length: cursor++
moveRight(v, cursor) == IF cursor < Len(v) THEN Field(v, cursor + 1) ELSE Field(v, cursor)

\* value.slice(0, cursor) + data + value.slice(cursor); cursor++
insertAt(v, cursor, data) ==
    Field(slice(v, 0, cursor) \o << data >> \o slice(v, cursor, Len(v)), cursor + 1)

\* the `focused === "title"` branch of the form's handleInput
titleKey(v, cursor, data) ==
    IF matchesKey(data, "BACKSPACE") /\ cursor > 0 THEN backspace(v, cursor)
    ELSE IF matchesKey(data, "LEFT") /\ cursor > 0 THEN moveLeft(v, cursor)
    ELSE IF matchesKey(data, "RIGHT") /\ cursor < Len(v) THEN moveRight(v, cursor)
    ELSE IF isPrintable(data) THEN insertAt(v, cursor, data)
    ELSE Field(v, cursor)

\* the `focused === "desc"` branch of the form's handleInput
descKey(v, cursor, data) ==
    IF matchesKey(data, "BACKSPACE") /\ cursor > 0 THEN backspace(v, cursor)
    ELSE IF matchesKey(data, "LEFT") /\ cursor > 0 THEN moveLeft(v, cursor)
    ELSE IF matchesKey(data, "RIGHT") /\ cursor < Len(v) THEN moveRight(v, cursor)
    ELSE IF matchesKey(data, "UP") THEN Field(v, moveUp(v, cursor))
    ELSE IF matchesKey(data, "DOWN") THEN Field(v, moveDown(v, cursor))
    ELSE IF matchesKey(data, "ENTER") THEN insertAt(v, cursor, NL)
    ELSE IF isPrintable(data) THEN insertAt(v, cursor, data)
    ELSE Field(v, cursor)

\* ---- save: the awaited updateIssue calls after done(true)
SaveStages == << "saveTitle", "saveDesc", "saveStatus", "savePriority" >>

updatesEveryField(stage, iss) == TRUE

\* the `if` guarding each awaited update
needsUpdate(stage, iss) ==
    CASE stage = "saveTitle" -> trim(titleValue) # trim(iss.title)
      [] stage = "saveDesc" -> descValue # descOrEmpty(iss.description)
      [] stage = "saveStatus" -> statusValue # iss.status
      [] stage = "savePriority" -> priorityValue # iss.priority

\* the first stage after position k whose update is issued; "return" if none
stageAfter(k, iss) ==
    IF \E j \in (k + 1)..Len(SaveStages) : needsUpdate(SaveStages[j], iss)
    THEN SaveStages[CHOOSE j \in (k + 1)..Len(SaveStages) :
                        /\ needsUpdate(SaveStages[j], iss)
                        /\ \A h \in (k + 1)..(j - 1) : ~needsUpdate(SaveStages[h], iss)]
    ELSE "return"

stagePos(stage) == CHOOSE j \in 1..Len(SaveStages) : SaveStages[j] = stage

\* the arguments of the awaited update of a stage
stageFlag(stage) ==
    CASE stage = "saveTitle" -> "--title"
      [] stage = "saveDesc" -> "--description"
      [] stage = "saveStatus" -> "--status"
      [] stage = "savePriority" -> "--priority"

stageValue(stage) ==
    CASE stage = "saveTitle" -> trim(titleValue)
      [] stage = "saveDesc" -> descValue
      [] stage = "saveStatus" -> statusValue
      [] stage = "savePriority" -> DigitText(priorityValue)

stageAssignNothing(stage, iss) == iss

\* the assignment to `issue` after the awaited update of a stage
stageAssign(stage, iss) ==
    CASE stage = "saveTitle" -> [iss EXCEPT !.title = trim(titleValue)]
      [] stage = "saveDesc" -> [iss EXCEPT !.description = descValue]
      [] stage = "saveStatus" -> [iss EXCEPT !.status = statusValue]
      [] stage = "savePriority" -> [iss EXCEPT !.priority = priorityValue]

stageNote(stage) ==
    CASE stage = "saveTitle" -> "success: Title updated"
      [] stage = "saveDesc" -> "success: Description updated"
      [] stage = "saveStatus" -> "success: Status"
      [] stage = "savePriority" -> "success: Priority"

\* continue editIssue after done(true) or after an awaited update: up to the next
\* await, or to `return issue`
ContinueSave(k, iss, said) ==
    IF stageAfter(k, iss) = "return"
    THEN ReturnFromEdit(iss, FALSE, said)
    ELSE /\ pc' = stageAfter(k, iss)
         /\ issue' = iss
         /\ notes' = said
         /\ UNCHANGED << titleValue, descValue, statusValue, priorityValue,
                         focused, titleCursor, descCursor, listVars >>

FormTab(data) ==
    /\ matchesKey(data, "TAB")
    /\ focused' = IF focused = "nav" THEN "title" ELSE IF focused = "title" THEN "desc" ELSE "nav"
    /\ notes' = {}
    /\ UNCHANGED << pc, listVars, issue, titleValue, descValue, statusValue,
                    priorityValue, titleCursor, descCursor >>

\* the keys the form's handleInput returns on before it looks at Enter
handledEarlier(data) ==
    matchesKey(data, "TAB") \/ matchesKey(data, "ESC") \/ data = "q" \/ data = "Q"
        \/ matchesKey(data, "CTRL_C")

FormCancelCommits(data) ==
    /\ ~matchesKey(data, "TAB")
    /\ \/ matchesKey(data, "ESC") \/ data = "q" \/ data = "Q"
       \/ matchesKey(data, "CTRL_C")
    /\ ReturnFromEdit([issue EXCEPT !.title = titleValue], FALSE, {})

\* done(false): editIssue returns null
FormCancel(data) ==
    /\ ~matchesKey(data, "TAB")
    /\ \/ matchesKey(data, "ESC") \/ data = "q" \/ data = "Q"
       \/ matchesKey(data, "CTRL_C")
    /\ ReturnFromEdit(issue, TRUE, {})

\* Enter: done(true) unless the focus is on nav
FormEnter(data) ==
    /\ ~handledEarlier(data)
    /\ matchesKey(data, "ENTER")
    /\ IF focused # "nav"
       THEN /\ focused' = "nav"
            /\ IF stageAfter(0, issue) = "return"
               THEN ReturnFromEdit(issue, FALSE, {})
               ELSE /\ pc' = stageAfter(0, issue)
                    /\ notes' = {}
                    /\ UNCHANGED << issue, titleValue, descValue, statusValue,
                                    priorityValue, titleCursor, descCursor, listVars >>
       ELSE /\ notes' = {}
            /\ UNCHANGED << pc, listVars, formVars >>

FormNav(data) ==
    /\ ~handledEarlier(data) /\ ~matchesKey(data, "ENTER")
    /\ focused = "nav"
    /\ statusValue' = IF matchesKey(data, " ") THEN cycleStatus(statusValue) ELSE statusValue
    /\ priorityValue' = IF ~matchesKey(data, " ") /\ parsePriorityKey(data) # NoPriority
                        THEN parsePriorityKey(data) ELSE priorityValue
    /\ notes' = {}
    /\ UNCHANGED << pc, listVars, issue, titleValue, descValue, focused,
                    titleCursor, descCursor >>

FormTitle(data) ==
    /\ ~handledEarlier(data) /\ ~matchesKey(data, "ENTER")
    /\ focused = "title"
    /\ isPrintable(data) => Len(titleValue) < MaxText
    /\ titleValue' = titleKey(titleValue, titleCursor, data).value
    /\ titleCursor' = titleKey(titleValue, titleCursor, data).cursor
    /\ notes' = {}
    /\ UNCHANGED << pc, listVars, issue, descValue, statusValue, priorityValue,
                    focused, descCursor >>

FormDesc(data) ==
    /\ ~handledEarlier(data) /\ ~matchesKey(data, "ENTER")
    /\ focused = "desc"
    /\ isPrintable(data) => Len(descValue) < MaxText
    /\ descValue' = descKey(descValue, descCursor, data).value
    /\ descCursor' = descKey(descValue, descCursor, data).cursor
    /\ notes' = {}
    /\ UNCHANGED << pc, listVars, issue, titleValue, statusValue, priorityValue,
                    focused, titleCursor >>

\* handleInput of the edit form
HandleFormInput(data) ==
    /\ pc = "edit"
    /\ \/ FormTab(data)
       \/ FormCancel(data)
       \/ FormEnter(data)
       \/ FormNav(data)
       \/ FormTitle(data)
       \/ FormDesc(data)
    /\ UNCHANGED << toolVars, viaList, sent, statusBar, remoteVars >>

\* the awaited updateIssue of the current stage resolved
SaveResolve ==
    /\ pc \in {"saveTitle", "saveDesc", "saveStatus", "savePriority"}
    /\ remote' = applyUpdate(remote, issue.id, stageFlag(pc), stageValue(pc))
    /\ ContinueSave(stagePos(pc), stageAssign(pc, issue), {stageNote(pc)})
    /\ UNCHANGED << toolVars, viaList, sent, statusBar, inflight >>

\* the awaited updateIssue of the current stage threw
SaveReject ==
    /\ pc \in {"saveTitle", "saveDesc", "saveStatus", "savePriority"}
    /\ ThrowFromEdit
    /\ UNCHANGED remoteVars

\* ---------------------------------------------------------------- specification
Next ==
    \/ FetchResolve
    \/ FetchReject
    \/ \E data \in ListKeys : HandleInput(data)
    \/ \E i \in 1..MaxWrites : UpdateResolve(i)
    \/ \E i \in 1..MaxWrites : UpdateReject(i)
    \/ ShowResolve
    \/ ShowReject
    \/ \E data \in FormKeys : HandleFormInput(data)
    \/ SaveResolve
    \/ SaveReject

Spec == Init /\ [][Next]_vars

\* `/beads <id>`: editIssue alone, on one issue of EditStore; selectedId stands
\* for editIssue's `id` argument.
InitEdit ==
    /\ toolsIdle
    /\ pc = "show"
    /\ viaList = FALSE
    /\ statusBar = "none"
    /\ notes = {}
    /\ sent = <<>>
    /\ remote \in EditStore
    /\ inflight = <<>>
    /\ displayIssues = <<>>
    /\ filterTerm = <<>>
    /\ rememberedSelectedId = Undefined
    /\ selectedId = << "x", "-", "1" >>
    /\ searching = FALSE
    /\ searchBuffer = <<>>
    /\ items = <<>>
    /\ selectedIndex = 0
    /\ wired = "none"
    /\ writes = 0
    /\ descScroll = 0
    /\ lastWidth = initialWidth
    /\ descText = <<>>
    /\ issue = NoIssue
    /\ titleValue = <<>>
    /\ descValue = <<>>
    /\ statusValue = "open"
    /\ priorityValue = NoPriority
    /\ focused = "nav"
    /\ titleCursor = 0
    /\ descCursor = 0

NextEdit ==
    \/ ShowResolve
    \/ ShowReject
    \/ \E data \in EditKeysIn(focused) : HandleFormInput(data)
    \/ SaveResolve
    \/ SaveReject

SpecEdit == InitEdit /\ [][NextEdit]_vars

\* The description editor alone: the form is open with the focus on a
\* description of lines of "a", the cursor anywhere in it, and Up and Down are
\* pressed.
DescBuffers == UNION { [1..n -> { "a", NL }] : n \in 0..MaxDesc }

InitMove ==
    /\ toolsIdle
    /\ pc = "edit"
    /\ viaList = FALSE
    /\ statusBar = "none"
    /\ notes = {}
    /\ sent = <<>>
    /\ remote = << Issue(<< "x", "-", "1" >>, << "A" >>, Undefined, "open", 2) >>
    /\ inflight = <<>>
    /\ displayIssues = <<>>
    /\ filterTerm = <<>>
    /\ rememberedSelectedId = Undefined
    /\ selectedId = << "x", "-", "1" >>
    /\ searching = FALSE
    /\ searchBuffer = <<>>
    /\ items = <<>>
    /\ selectedIndex = 0
    /\ wired = "none"
    /\ writes = 0
    /\ descScroll = 0
    /\ lastWidth = initialWidth
    /\ descText = <<>>
    /\ issue = remote[1]
    /\ titleValue = issue.title
    /\ descValue \in DescBuffers
    /\ statusValue = issue.status
    /\ priorityValue = issue.priority
    /\ focused = "desc"
    /\ titleCursor = Len(issue.title)
    /\ descCursor \in 0..Len(descValue)

NextMove ==
    \/ HandleFormInput("UP")
    \/ HandleFormInput("DOWN")

SpecMove == InitMove /\ [][NextMove]_vars

\* List navigation alone: a list of one to MaxItems records, every second one
\* closed, is fetched, and the selection is moved, with searches in between.
NavStore(n) ==
    [i \in 1..n |->
        Issue(<< "x", "-", DigitText(i) >>, << "A" >>, Undefined,
              IF i % 2 = 0 THEN "closed" ELSE "open", NoPriority)]

NavKeys == { "w", "s", "DOWN", "CTRL_F", "ENTER", "CTRL_C" }

InitNav ==
    /\ toolsIdle
    /\ pc = "loading"
    /\ viaList = TRUE
    /\ statusBar = "Loading"
    /\ notes = {}
    /\ sent = <<>>
    /\ remote \in { NavStore(n) : n \in 1..MaxItems }
    /\ inflight = <<>>
    /\ displayIssues = <<>>
    /\ filterTerm = <<>>
    /\ rememberedSelectedId = Undefined
    /\ selectedId = Undefined
    /\ searching = FALSE
    /\ searchBuffer = <<>>
    /\ items = <<>>
    /\ selectedIndex = 0
    /\ wired = "none"
    /\ writes = 0
    /\ descScroll = 0
    /\ lastWidth = initialWidth
    /\ descText = <<>>
    /\ issue = NoIssue
    /\ titleValue = <<>>
    /\ descValue = <<>>
    /\ statusValue = "open"
    /\ priorityValue = NoPriority
    /\ focused = "nav"
    /\ titleCursor = 0
    /\ descCursor = 0

NextNav ==
    \/ FetchResolve
    \/ \E data \in NavKeys \cap ListKeys : HandleInput(data)

SpecNav == InitNav /\ [][NextNav]_vars

\* The filter alone: a list of one record is open in search entry with a term
\* typed; Enter applies it, and Ctrl+F starts the next search.
FilterTerms == UNION { [1..n -> { "a", "A", "b", "s", " " }] : n \in 0..MaxTerm }

FilterIssues ==
    { Issue(<< "x", "-", "1" >>, t, d, st, NoPriority) :
        t \in { << "A" >>, << "b" >>, << "A", "b" >> },
        d \in { Undefined, << "a" >>, << "B" >> },
        st \in { "open", "closed" } }

FilterKeys == { "ENTER", "CTRL_F" }

InitFilter ==
    /\ toolsIdle
    /\ pc = "list"
    /\ viaList = TRUE
    /\ statusBar = "none"
    /\ notes = {}
    /\ sent = <<>>
    /\ remote \in { << i >> : i \in FilterIssues }
    /\ inflight = <<>>
    /\ displayIssues = remote
    /\ filterTerm = <<>>
    /\ rememberedSelectedId = Undefined
    /\ selectedId = Undefined
    /\ searching = TRUE
    /\ searchBuffer \in FilterTerms
    /\ items = idsOf(displayIssues)
    /\ selectedIndex = 0
    /\ wired = "initial"
    /\ writes = 0
    /\ descScroll = 0
    /\ lastWidth = initialWidth
    /\ descText = buildDescText(truncateDescription(displayIssues[1].description, scrollCap),
                                initialWidth)
    /\ issue = NoIssue
    /\ titleValue = <<>>
    /\ descValue = <<>>
    /\ statusValue = "open"
    /\ priorityValue = NoPriority
    /\ focused = "nav"
    /\ titleCursor = 0
    /\ descCursor = 0

NextFilter == \E data \in FilterKeys \cap ListKeys : HandleInput(data)

SpecFilter == InitFilter /\ [][NextFilter]_vars

\* Marking records: two records are stored, the first of any status and
\* priority, or of any kind of description. Either `/beads` fetches the list,
\* where statuses are cycled, priorities set and work started, or `/beads <id>`
\* opens the form on the first record, where status and priority are changed
\* and saved.
Statuses == { "open", "in_progress", "blocked", "deferred", "closed" }

MarkedIssue(d, st, p) ==
    << Issue(<< "x", "-", "1" >>, << "A" >>, d, st, p),
       Issue(<< "x", "-", "2" >>, << "b" >>, << "a" >>, "closed", 2) >>

MarkStores ==
    { MarkedIssue(Undefined, st, p) : st \in Statuses, p \in { NoPriority, 0, 4 } }
    \cup { MarkedIssue(d, "open", NoPriority) :
              d \in { << "a" >>, << " " >>, << " ", "a", " " >> } }

MarkKeys == { " ", "0", "3", "4", "5", "9", "ENTER", "DOWN" }
\* The keys pressed in the form while the focus is on `f`: the marks on nav,
\* and Enter, which saves, on the text fields.
MarkFormKeys(f) ==
    IF f = "nav" THEN { " ", "0", "4", "5", "9", "TAB", "ESC" } ELSE { "TAB", "ENTER", "ESC" }

InitMark ==
    /\ toolsIdle
    /\ \/ pc = "loading" /\ viaList = TRUE /\ statusBar = "Loading" /\ selectedId = Undefined
       \/ pc = "show" /\ viaList = FALSE /\ statusBar = "none"
            /\ selectedId = << "x", "-", "1" >>
    /\ notes = {}
    /\ sent = <<>>
    /\ remote \in MarkStores
    /\ inflight = <<>>
    /\ displayIssues = <<>>
    /\ filterTerm = <<>>
    /\ rememberedSelectedId = Undefined
    /\ searching = FALSE
    /\ searchBuffer = <<>>
    /\ items = <<>>
    /\ selectedIndex = 0
    /\ wired = "none"
    /\ writes = 0
    /\ descScroll = 0
    /\ lastWidth = initialWidth
    /\ descText = <<>>
    /\ issue = NoIssue
    /\ titleValue = <<>>
    /\ descValue = <<>>
    /\ statusValue = "open"
    /\ priorityValue = NoPriority
    /\ focused = "nav"
    /\ titleCursor = 0
    /\ descCursor = 0

NextMark ==
    \/ FetchResolve
    \/ \E data \in MarkKeys : HandleInput(data)
    \/ \E i \in 1..MaxWrites : UpdateResolve(i)
    \/ \E i \in 1..MaxWrites : UpdateReject(i)
    \/ ShowResolve
    \/ \E data \in MarkFormKeys(focused) : HandleFormInput(data)
    \/ SaveResolve

SpecMark == InitMark /\ [][NextMark]_vars

\* The description preview: a list of two records, the first described by any
\* short line or by two lines, the second not described, is fetched; the
\* selection is moved, the preview scrolled, and the list rendered at narrow
\* widths and at the initial one.
PreviewTexts ==
    UNION { [1..n -> { "a", "b", " " }] : n \in 0..MaxLine }
    \cup { << "a", "b", NL, "b", " ", "a" >> }

PreviewStores ==
    { << Issue(<< "x", "-", "1" >>, << "A" >>, d, "open", NoPriority),
         Issue(<< "x", "-", "2" >>, << "b" >>, Undefined, "closed", NoPriority) >> :
        d \in PreviewTexts }

PreviewKeys == { "s", "DOWN", "j", "k" }
PreviewWidths == 1..MaxWidth \cup { initialWidth }

InitPreview ==
    /\ toolsIdle
    /\ pc = "loading"
    /\ viaList = TRUE
    /\ statusBar = "Loading"
    /\ notes = {}
    /\ sent = <<>>
    /\ remote \in PreviewStores
    /\ inflight = <<>>
    /\ displayIssues = <<>>
    /\ filterTerm = <<>>
    /\ rememberedSelectedId = Undefined
    /\ selectedId = Undefined
    /\ searching = FALSE
    /\ searchBuffer = <<>>
    /\ items = <<>>
    /\ selectedIndex = 0
    /\ wired = "none"
    /\ writes = 0
    /\ descScroll = 0
    /\ lastWidth = initialWidth
    /\ descText = <<>>
    /\ issue = NoIssue
    /\ titleValue = <<>>
    /\ descValue = <<>>
    /\ statusValue = "open"
    /\ priorityValue = NoPriority
    /\ focused = "nav"
    /\ titleCursor = 0
    /\ descCursor = 0

NextPreview ==
    \/ FetchResolve
    \/ \E data \in PreviewKeys : HandleInput(data)
    \/ \E w \in PreviewWidths : Render(w)

SpecPreview == InitPreview /\ [][NextPreview]_vars

\* Editing from the list: the two stored records are fetched, or the fetch
\* fails; in the list the status of the first record is cycled without waiting
\* and the record is edited; in the form every field is changed, then saved or
\* cancelled. The un-awaited updates all succeed; the awaited calls of the edit
\* (show and the updates of the save) succeed or fail.
SaveKeys == { "e", " " }

\* The keys pressed in that form while the focus is on `f`.
SaveFormKeys(f) ==
    IF f = "nav" THEN { " ", "3", "TAB", "ESC" }
    ELSE { "a", "TAB", "ENTER" }

InitSave ==
    /\ toolsIdle
    /\ pc = "loading"
    /\ viaList = TRUE
    /\ statusBar = "Loading"
    /\ notes = {}
    /\ sent = <<>>
    /\ remote = ListStore
    /\ inflight = <<>>
    /\ displayIssues = <<>>
    /\ filterTerm = <<>>
    /\ rememberedSelectedId = Undefined
    /\ selectedId = Undefined
    /\ searching = FALSE
    /\ searchBuffer = <<>>
    /\ items = <<>>
    /\ selectedIndex = 0
    /\ wired = "none"
    /\ writes = 0
    /\ descScroll = 0
    /\ lastWidth = initialWidth
    /\ descText = <<>>
    /\ issue = NoIssue
    /\ titleValue = <<>>
    /\ descValue = <<>>
    /\ statusValue = "open"
    /\ priorityValue = NoPriority
    /\ focused = "nav"
    /\ titleCursor = 0
    /\ descCursor = 0

NextSave ==
    \/ FetchResolve
    \/ FetchReject
    \/ \E data \in SaveKeys : HandleInput(data)
    \/ \E i \in 1..MaxWrites : UpdateResolve(i)
    \/ ShowResolve
    \/ ShowReject
    \/ \E data \in SaveFormKeys(focused) : HandleFormInput(data)
    \/ SaveResolve
    \/ SaveReject

SpecSave == InitSave /\ [][NextSave]_vars

\* ---------------------------------------------------------------- claims
selectedItem == getSelectedItem(items, selectedIndex)

visibleIds == getItems(displayIssues, filterTerm)

\* the priority a list of records holds for an id; only used where the id occurs
priorityIn(issues, id) == issues[findIndex(idsOf(issues), id) + 1].priority

\* C1: in the edit form both cursors are always valid offsets into their buffers:
\* 0 <= titleCursor <= length(titleValue) and 0 <= descCursor <= length(descValue).
C1_CursorsInRange ==
    /\ 0 <= titleCursor /\ titleCursor <= Len(titleValue)
    /\ 0 <= descCursor /\ descCursor <= Len(descValue)

\* C1 witness: both fields were edited and both cursors moved off the buffer end.
C1_Witness ==
    /\ pc = "edit"
    /\ titleValue # issue.title /\ Len(titleValue) > 0 /\ titleCursor = 0
    /\ descValue # descOrEmpty(issue.description) /\ includes(descValue, << NL >>)
    /\ descCursor > 0 /\ descCursor < Len(descValue)

\* the record the list had selected before a step that ends in the list
previouslySelected == IF pc = "list" THEN selectedItem ELSE rememberedSelectedId

\* C2: in the list the SelectList shows exactly the records the filter lets
\* through, so a selected record is always one of them; and a step that takes the
\* selected record out of the visible set leaves the first visible record selected.
C2_SelectionVisible ==
    /\ [](pc = "list" =>
            /\ items = visibleIds
            /\ selectedItem # Undefined => findIndex(items, selectedItem) >= 0)
    /\ [][(/\ pc' = "list"
           /\ previouslySelected # Undefined
           /\ items' # <<>>
           /\ findIndex(items', previouslySelected) = -1) => selectedItem' = items'[1]]_vars

\* C2 witness: under an active filter the record last acted on is no longer
\* visible and the first visible record is selected instead.
C2_Witness ==
    /\ pc = "list" /\ filterTerm # <<>> /\ items # <<>>
    /\ rememberedSelectedId # Undefined
    /\ findIndex(visibleIds, rememberedSelectedId) = -1
    /\ selectedItem = visibleIds[1]

\* C3: applying a search whose term matches no record notifies the user and
\* reverts the filter term to empty, leaving a non-empty visible set.
C3_EmptySearchReverts ==
    [][(/\ pc = "list" /\ searching
        /\ visibleOf(displayIssues, trim(searchBuffer)) = <<>>
        /\ HandleInput("ENTER"))
       => (/\ notes' # {}
           /\ filterTerm' = <<>>
           /\ visibleIds' # <<>>)]_vars

\* C4: on Cancel while browsing, an active filter is cleared and the session
\* goes on with every record visible; the session ends only with no filter.
C4_CancelClearsFilter ==
    [][(/\ pc = "list" /\ ~searching
        /\ HandleInput("ESC") \/ HandleInput(CTRL_Q))
       => IF filterTerm # <<>>
          THEN pc' = "list" /\ filterTerm' = <<>> /\ items' = idsOf(displayIssues)
          ELSE pc' = "done"]_vars

\* C5: Cancel during search entry drops the search buffer only: the session goes
\* on, search entry is left, and the filter term and its visible set are as before.
C5_SearchCancelKeepsFilter ==
    [][(pc = "list" /\ searching /\ HandleInput("ESC"))
       => (/\ pc' = "list" /\ ~searching'
           /\ filterTerm' = filterTerm
           /\ items' = getItems(displayIssues, filterTerm))]_vars

C7_NoRollback ==
    [][(\E i \in 1..Len(inflight) : UpdateReject(i)) => displayIssues' = displayIssues]_vars

\* C7 witness: the one un-awaited update is over, and a local record still carries
\* the status or priority it asked for while the store has the fetched one.
C7_Witness ==
    /\ pc = "list" /\ writes > 0 /\ inflight = <<>>
    /\ idsOf(remote) = idsOf(displayIssues)
    /\ \E k \in 1..Len(displayIssues) :
          \/ /\ displayIssues[k].status # remote[k].status
             /\ remote[k].status = ListStore[k].status
          \/ /\ displayIssues[k].priority # remote[k].priority
             /\ remote[k].priority = ListStore[k].priority

\* C8: the failure of an un-awaited update is reported as a notification.
C8_FailureNotified ==
    [][(\E i \in 1..Len(inflight) : UpdateReject(i)) => notes' # {}]_vars

\* C9: no save sends an empty title to the store or leaves a record, local or
\* in the store, with an empty title.
C9_SavedTitleNonEmpty ==
    /\ \A k \in 1..Len(remote) : remote[k].title # <<>>
    /\ \A k \in 1..Len(displayIssues) : displayIssues[k].title # <<>>
    /\ pc = "saveTitle" => trim(titleValue) # <<>>

\* C10: Enter on a title that is empty after trimming is rejected: no update is
\* issued and the form stays open.
C10_EmptyTitleRejected ==
    [][(/\ pc = "edit" /\ focused # "nav"
        /\ trim(titleValue) = <<>>
        /\ HandleFormInput("ENTER"))
       => (pc' = "edit" /\ remote' = remote)]_vars

\* the keys that cancel the edit form
CancelKeys == { "ESC", "q", "Q", "CTRL_C" }

\* C11: cancelling the edit form issues no remote update and leaves every local
\* record as it was before the Edit: the Edit step, every step while the record
\* is fetched and the form is open, and the cancelling step itself change no
\* local record, and the cancelling step changes neither the store nor the
\* pending calls.
C11_CancelDiscards ==
    [][/\ (pc = "list" /\ pc' = "show") => displayIssues' = displayIssues
       /\ (pc \in {"show", "edit"} /\ pc' \in {"show", "edit"})
            => (displayIssues' = displayIssues /\ Len(inflight') <= Len(inflight))
       /\ (pc = "edit" /\ \E data \in CancelKeys \cap (FormKeys \cup EditKeys) :
                              HandleFormInput(data))
            => (/\ displayIssues' = displayIssues
                /\ remote' = remote
                /\ inflight' = inflight
                /\ pc' = IF viaList THEN "list" ELSE "done")]_vars

\* C11 witness: back in the list from an edit with the optimistic priority 3 still
\* on the local record while its update is pending: only a cancelled edit
\* leaves it, a saved one merges the fetched priority.
C11_Witness ==
    /\ pc = "list" /\ wired = "initial"
    /\ rememberedSelectedId # Undefined
    /\ inflight # <<>> /\ inflight[1].flag = "--priority"
    /\ findIndex(idsOf(displayIssues), rememberedSelectedId) >= 0
    /\ inflight[1].id = rememberedSelectedId
    /\ priorityIn(displayIssues, rememberedSelectedId) = DigitOf(inflight[1].value)
    /\ priorityIn(remote, rememberedSelectedId) # DigitOf(inflight[1].value)

\* the field a save stage writes, as edited in the form and as a record holds it
editedField(stage, tv, dv, sv, pv) ==
    CASE stage = "saveTitle" -> trim(tv)
      [] stage = "saveDesc" -> dv
      [] stage = "saveStatus" -> StatusText(sv)
      [] stage = "savePriority" -> << pv >>

heldField(stage, iss) ==
    CASE stage = "saveTitle" -> trim(iss.title)
      [] stage = "saveDesc" -> descOrEmpty(iss.description)
      [] stage = "saveStatus" -> StatusText(iss.status)
      [] stage = "savePriority" -> << iss.priority >>

\* the edited value of the stage's field differs from the fetched record's
fieldDiffers(stage) ==
    editedField(stage, titleValue, descValue, statusValue, priorityValue)
        # heldField(stage, issue)

\* Enter that saves: done(true)
SavingEnter == pc = "edit" /\ focused # "nav" /\ HandleFormInput("ENTER")

\* C12: a save issues one update per field whose edited value differs from the
\* fetched one (the title compared after trimming) and none for the others: an
\* update is only issued for a differing field and carries that field's edited
\* value and nothing else, every field passed over on the way to the next update
\* or to the return is unchanged, and a save with no change issues no update.
C12_SaveWritesChangedFields ==
    [][(SavingEnter \/ SaveResolve) =>
          \A from \in { IF pc = "edit" THEN 0 ELSE stagePos(pc) } :
          \A to \in { IF pc' \in { SaveStages[j] : j \in 1..Len(SaveStages) }
                      THEN stagePos(pc') ELSE Len(SaveStages) + 1 } :
             /\ to > from
             /\ to <= Len(SaveStages) =>
                   editedField(pc', titleValue', descValue', statusValue', priorityValue')
                       # heldField(pc', issue')
             /\ \A h \in (from + 1)..(to - 1) : ~fieldDiffers(SaveStages[h])
             /\ from = 0 => remote' = remote
             /\ from > 0 =>
                   /\ fieldDiffers(pc)
                   /\ \A k \in 1..Len(remote) :
                        /\ remote'[k].id = remote[k].id
                        /\ \A st \in { SaveStages[j] : j \in 1..Len(SaveStages) } :
                             heldField(st, remote'[k]) =
                                IF st = pc /\ remote[k].id = issue.id
                                THEN editedField(st, titleValue, descValue,
                                                 statusValue, priorityValue)
                                ELSE heldField(st, remote[k])]_vars

\* C12 witness: the description update of a save is pending; the title was edited
\* but is equal after trimming and got no update, and the priority differs and is
\* still to be written.
C12_Witness ==
    /\ pc = "saveDesc"
    /\ titleValue # issue.title /\ ~fieldDiffers("saveTitle")
    /\ remote[1].title = issue.title
    /\ fieldDiffers("saveDesc")
    /\ ~fieldDiffers("saveStatus")
    /\ fieldDiffers("savePriority")

\* C13: Enter in the focused description inserts a line break at the cursor,
\* advances the cursor by one and keeps the form open; and no key puts a line
\* break into the title buffer.
C13_EnterBreaksLine ==
    [][/\ (pc = "edit" /\ focused = "desc" /\ HandleFormInput("ENTER"))
            => /\ pc' = "edit"
               /\ descValue' = slice(descValue, 0, descCursor) \o << NL >>
                                  \o slice(descValue, descCursor, Len(descValue))
               /\ descCursor' = descCursor + 1
       /\ (pc = "edit" /\ pc' = "edit" /\ includes(titleValue', << NL >>))
            => includes(titleValue, << NL >>)]_vars

\* ---- lines of a buffer, by offsets: offset i starts a line when i = 0 or the
\* character before it is a line break; a line ends at the next line break or
\* at the end of the buffer
SetMax(S) == CHOOSE x \in S : \A y \in S : y <= x
SetMin(S) == CHOOSE x \in S : \A y \in S : x <= y
lineStartOf(v, c) == SetMax({ i \in 0..c : i = 0 \/ v[i] = NL })
lineEndOf(v, c) == SetMin({ i \in c..Len(v) : i = Len(v) \/ v[i + 1] = NL })
columnOf(v, c) == c - lineStartOf(v, c)
lineLenAt(v, c) == lineEndOf(v, c) - lineStartOf(v, c)
hasNextLine(v, c) == lineEndOf(v, c) < Len(v)
hasPrevLine(v, c) == lineStartOf(v, c) > 0

\* the description editor is taking keys
InDesc == pc = "edit" /\ focused = "desc"

\* the cursor Up and Down leave, as the form's description branch computes it
afterUp(v, c) == descKey(v, c, "UP").cursor
afterDown(v, c) == descKey(v, c, "DOWN").cursor

\* C14: Down on a line that is followed by another line, an empty final line
\* included, puts the cursor at nextLineStart + min(column, nextLineLength); on
\* the last line it leaves the cursor where it is.
C14_MoveDown ==
    InDesc =>
        afterDown(descValue, descCursor) =
            IF hasNextLine(descValue, descCursor)
            THEN LET nextLineStart == lineEndOf(descValue, descCursor) + 1
                 IN nextLineStart + Min(columnOf(descValue, descCursor),
                                        lineLenAt(descValue, nextLineStart))
            ELSE descCursor

\* C15: Up on a line other than the first puts the cursor at
\* previousLineStart + min(column, previousLineLength); on the first line it
\* leaves the cursor where it is.
C15_MoveUp ==
    InDesc =>
        afterUp(descValue, descCursor) =
            IF hasPrevLine(descValue, descCursor)
            THEN LET prev == lineStartOf(descValue, descCursor) - 1
                 IN lineStartOf(descValue, prev)
                        + Min(columnOf(descValue, descCursor), lineLenAt(descValue, prev))
            ELSE descCursor

\* C15 witness: the cursor is on a later line, further right than the previous
\* line is long, and Up has put it at that line's end.
C15_Witness ==
    /\ InDesc /\ hasPrevLine(descValue, descCursor)
    /\ columnOf(descValue, descCursor)
          > lineLenAt(descValue, lineStartOf(descValue, descCursor) - 1)
    /\ lineLenAt(descValue, lineStartOf(descValue, descCursor) - 1) > 0
    /\ afterUp(descValue, descCursor) = lineStartOf(descValue, descCursor) - 1

\* C16: from a line with a line before and a line after it, Up then Down comes
\* back to the same line, at column min(column, length of the line visited).
C16_UpThenDown ==
    (InDesc /\ hasPrevLine(descValue, descCursor) /\ hasNextLine(descValue, descCursor))
        => \A back \in { afterDown(descValue, afterUp(descValue, descCursor)) } :
              /\ lineStartOf(descValue, back) = lineStartOf(descValue, descCursor)
              /\ columnOf(descValue, back) =
                    Min(columnOf(descValue, descCursor),
                        lineLenAt(descValue, lineStartOf(descValue, descCursor) - 1))

\* C16 witness: a middle line whose cursor column is beyond the end of the line
\* above, so the round trip lands left of where it started.
C16_Witness ==
    /\ InDesc /\ hasPrevLine(descValue, descCursor) /\ hasNextLine(descValue, descCursor)
    /\ columnOf(descValue, descCursor)
          > lineLenAt(descValue, lineStartOf(descValue, descCursor) - 1)
    /\ afterDown(descValue, afterUp(descValue, descCursor)) < descCursor

\* the list is taking browse keys
Browsing == pc = "list" /\ ~searching

\* C17: with records visible the selected index is within [0, size), "s" (+1)
\* selects the next index and index 0 after the last, "w" (-1) the previous index
\* and the last after index 0; with nothing visible neither changes anything.
C17_MoveSelectionWraps ==
    /\ [](Browsing /\ items # <<>> =>
            /\ selectedIndex \in 0..(Len(items) - 1)
            /\ nextIndex(items, selectedIndex, 1) =
                  (IF selectedIndex = Len(items) - 1 THEN 0 ELSE selectedIndex + 1)
            /\ nextIndex(items, selectedIndex, -1) =
                  (IF selectedIndex = 0 THEN Len(items) - 1 ELSE selectedIndex - 1))
    /\ [][\A d \in { -1, 1 } :
            (Browsing /\ HandleInput(IF d = 1 THEN "s" ELSE "w")) =>
                /\ selectedIndex' = IF items = <<>> THEN selectedIndex
                                    ELSE nextIndex(items, selectedIndex, d)
                /\ UNCHANGED << pc, items, displayIssues, filterTerm, searching,
                                remote, inflight >>]_vars

\* C17 witness: three records are visible and the last one is selected, where
\* +1 wraps to the first and -1 steps back to the middle one.
C17_Witness ==
    /\ Browsing /\ Len(items) = 3 /\ selectedIndex = 2
    /\ nextIndex(items, selectedIndex, 1) = 0
    /\ nextIndex(items, selectedIndex, -1) = 1

\* every key the list can be sent
AllKeys ==
    { "ESC", "CTRL_Q", "CTRL_F", "CTRL_C", "ENTER", "TAB", "BACKSPACE", "UP", "DOWN",
      "RIGHT", "LEFT", " ", "~", "0", "1", "3", "4", "5", "9", "a", "e", "E", "j", "k",
      "n", "q", "s", "S", "w", "W", "z" }

\* the controller state of the list with the two features switched as given
StateWith(as, ap) == [ListState EXCEPT !.allowSearch = as, !.allowPriority = ap]

\* C18: Ctrl+Q and Escape resolve to cancel in every state, while searching too,
\* whether or not search and priority hotkeys are enabled.
C18_CancelFirst ==
    pc = "list" =>
        \A data \in { CTRL_Q, "ESC" } : \A as \in BOOLEAN : \A ap \in BOOLEAN :
            resolveListIntent(data, StateWith(as, ap)) = Intent("cancel")

\* C18 witness: the list is in search entry with a character typed, and Escape
\* resolves to cancel there.
C18_Witness ==
    /\ pc = "list" /\ searching /\ searchBuffer # <<>>
    /\ resolveListIntent("ESC", ListState).type = "cancel"

\* the rule for a non-cancel key while searching: Enter, Backspace, one
\* character of code 32..126, anything else
searchRule(data) ==
    IF data = "ENTER" THEN Intent("searchApply")
    ELSE IF data = "BACKSPACE" THEN Intent("searchBackspace")
    ELSE IF Len(KeyCodes(data)) = 1 /\ KeyCodes(data)[1] \in 32..126
         THEN [Intent("searchAppend") EXCEPT !.value = data]
    ELSE Intent("delegate")

\* C19: while searching every non-cancel key resolves to searchApply (Enter),
\* searchBackspace (Backspace), searchAppend of the key (one character of code
\* 32..126) or delegate, so w, s, e, space, digits, j and k are appended.
C19_SearchingKeys ==
    (pc = "list" /\ searching) =>
        \A data \in AllKeys \ { CTRL_Q, "ESC" } : \A as \in BOOLEAN : \A ap \in BOOLEAN :
            /\ resolveListIntent(data, StateWith(as, ap)) = searchRule(data)
            /\ data \in { "w", "s", "e", " ", "0", "4", "j", "k" } =>
                  resolveListIntent(data, StateWith(as, ap)) =
                      [Intent("searchAppend") EXCEPT !.value = data]

\* C19 witness: in search entry the navigation key "s" was appended to the buffer.
C19_Witness ==
    /\ pc = "list" /\ searching /\ searchBuffer = << "s" >>
    /\ resolveListIntent("s", ListState).type = "searchAppend"

\* the rule for a non-cancel key while browsing, in the order of the rules
browseRule(data, as, ap) ==
    IF data = CTRL_F THEN (IF as THEN Intent("searchStart") ELSE Intent("delegate"))
    ELSE IF data \in { "w", "W" } THEN [Intent("moveSelection") EXCEPT !.delta = -1]
    ELSE IF data \in { "s", "S" } THEN [Intent("moveSelection") EXCEPT !.delta = 1]
    ELSE IF data = "ENTER" THEN Intent("work")
    ELSE IF data \in { "e", "E" } THEN Intent("edit")
    ELSE IF data = " " THEN Intent("toggleStatus")
    ELSE IF data \in { "0", "1", "3", "4" }
         THEN (IF ap THEN [Intent("setPriority") EXCEPT !.priority = KeyCodes(data)[1] - 48]
               ELSE Intent("delegate"))
    ELSE IF data = "j" THEN [Intent("scrollDescription") EXCEPT !.delta = 1]
    ELSE IF data = "k" THEN [Intent("scrollDescription") EXCEPT !.delta = -1]
    ELSE Intent("delegate")

\* C20: while browsing the rules apply in the order start-search, w/s, Enter, e,
\* space, priority digit, j/k, fallback; Ctrl+F starts a search only with search
\* enabled and a digit 0-4 sets the priority only with priority hotkeys enabled,
\* either is delegated otherwise, and the digits 5-9 are always delegated.
C20_BrowsingKeys ==
    Browsing =>
        \A data \in AllKeys \ { CTRL_Q, "ESC" } : \A as \in BOOLEAN : \A ap \in BOOLEAN :
            resolveListIntent(data, StateWith(as, ap)) = browseRule(data, as, ap)

\* C20 witness: browsing with the second record selected after a move; there 5 is
\* delegated, 4 sets priority 4, and Ctrl+F is delegated with search disabled.
C20_Witness ==
    /\ Browsing /\ selectedIndex = 1
    /\ resolveListIntent("5", ListState).type = "delegate"
    /\ resolveListIntent("4", ListState).priority = 4
    /\ resolveListIntent(CTRL_F, StateWith(FALSE, TRUE)).type = "delegate"

\* t occurs in h as a run of consecutive characters
isSubstring(t, h) == \E i \in 1..(Len(h) + 1) : \E j \in (i - 1)..Len(h) : SubSeq(h, i, j) = t

\* a text with A and B replaced by a and b (the only capitals the texts here have)
lowered(t) == [i \in 1..Len(t) |-> IF t[i] = "A" THEN "a" ELSE IF t[i] = "B" THEN "b" ELSE t[i]]

\* C21: a record matches a term exactly when the lower-cased term is a substring
\* of the lower-cased title, description (none counting as empty), id or status.
C21_MatchesIsSubstring ==
    pc = "list" =>
        \A k \in 1..Len(displayIssues) : \A t \in { searchBuffer, filterTerm } :
            matchesFilter(displayIssues[k], t) <=>
                \/ isSubstring(lowered(t), lowered(displayIssues[k].title))
                \/ /\ displayIssues[k].description # Undefined
                   /\ isSubstring(lowered(t), lowered(displayIssues[k].description))
                \/ displayIssues[k].description = Undefined /\ t = <<>>
                \/ isSubstring(lowered(t), lowered(displayIssues[k].id))
                \/ isSubstring(lowered(t), lowered(StatusText(displayIssues[k].status)))

\* C21 witness: the applied term "b" shows a record whose only field holding it,
\* up to case, is the description "B".
C21_Witness ==
    /\ pc = "list" /\ filterTerm = << "b" >> /\ items # <<>>
    /\ displayIssues[1].title = << "A" >>
    /\ displayIssues[1].description = << "B" >>
    /\ matchesFilter(displayIssues[1], filterTerm)

\* positions in the local records of the records the active filter term shows
matching ==
    { k \in 1..Len(displayIssues) :
        filterTerm = <<>> \/ matchesFilter(displayIssues[k], filterTerm) }

\* C22: the visible set is the subsequence of the local records, in their
\* order, of exactly the records matching the active filter term; with an empty
\* term it is the whole record sequence.
C22_VisibleIsFilteredSubsequence ==
    pc = "list" =>
        /\ Len(items) = Cardinality(matching)
        /\ \A k \in matching :
               items[Cardinality({ m \in matching : m <= k })] = displayIssues[k].id
        /\ filterTerm = <<>> => items = idsOf(displayIssues)

\* C22 witness: a term is active that hides the first record and shows the second.
C22_Witness ==
    /\ pc = "list" /\ filterTerm # <<>>
    /\ Len(displayIssues) = 2 /\ matching = { 2 }
    /\ items = << displayIssues[2].id >>

\* C23: applying a search makes the trimmed search buffer the active filter
\* term, leaves search entry and recomputes the visible set from the new term;
\* starting a search always begins with an empty search buffer.
C23_SearchApplyAndStart ==
    [][ /\ (searching /\ HandleInput("ENTER")) =>
              /\ filterTerm' = trim(searchBuffer)
              /\ ~searching'
              /\ pc' = "list"
              /\ items' = getItems(displayIssues', filterTerm')
        /\ (~searching /\ HandleInput("CTRL_F")) =>
              /\ searching'
              /\ searchBuffer' = <<>> ]_vars

\* C23 witness: the buffer " a" was applied and the active term is "a".
C23_Witness ==
    /\ pc = "list" /\ ~searching
    /\ searchBuffer = << " ", "a" >>
    /\ filterTerm = << "a" >>
    /\ items = getItems(displayIssues, << "a" >>)

\* the status the claim gives as the next one
nextStatus(st) ==
    CASE st = "open" -> "in_progress"
      [] st = "in_progress" -> "closed"
      [] st = "closed" -> "open"
      [] st = "blocked" -> "open"
      [] st = "deferred" -> "open"

\* C24: the status cycle maps open to in_progress, in_progress to closed, closed
\* to open and blocked and deferred to open; so after a status toggle in the list
\* the record's status is one of open, in_progress, closed.
C24_StatusCycle ==
    /\ [](\A st \in { displayIssues[k].status : k \in 1..Len(displayIssues) }
                     \cup { statusValue } :
              cycleStatus(st) = nextStatus(st))
    /\ [][(pc = "list" /\ ~searching /\ selectedPos > 0 /\ HandleInput(" ")) =>
              /\ displayIssues'[selectedPos].status
                    = nextStatus(displayIssues[selectedPos].status)
              /\ displayIssues'[selectedPos].status \in { "open", "in_progress", "closed" }
          ]_vars

\* C24 witness: a blocked record was toggled in the list and is open now, the
\* update still on its way.
C24_Witness ==
    /\ pc = "list"
    /\ remote[1].status = "blocked"
    /\ displayIssues[1].status = "open"
    /\ inflight = << [id |-> displayIssues[1].id, flag |-> "--status", value |-> "open"] >>

\* positions of the characters of a text that are not white space
inked(t) == { i \in 1..Len(t) : t[i] # " " /\ t[i] # NL }

\* the prompt the claim describes for a record: id, title, status and priority,
\* and the description without its surrounding white space when it has any ink
promptFor(r) ==
    << << "Work on Beads task ", r.id, ": ", r.title >>,
       <<>>,
       << "Status: ", r.status >>,
       << "Priority: ", IF r.priority \in 0..4 THEN DigitText(r.priority) ELSE "unknown" >> >>
    \o (IF r.description = Undefined \/ inked(r.description) = {} THEN <<>>
        ELSE << <<>>, << "Context:" >>,
                << SubSeq(r.description, SetMin(inked(r.description)),
                          SetMax(inked(r.description))) >> >>)

\* C25: Work on a selected record changes no local record and issues no remote
\* update; it ends the list session and emits exactly one prompt, built from the
\* record's id, title, status, priority and, if not blank, description.
C25_WorkOnlyPrompts ==
    [][(pc = "list" /\ ~searching /\ selectedPos > 0 /\ HandleInput("ENTER")) =>
          /\ displayIssues' = displayIssues
          /\ inflight' = inflight
          /\ remote' = remote
          /\ pc' = "done"
          /\ sent' = Append(sent, promptFor(displayIssues[selectedPos]))
      ]_vars

\* C25 witness: work was started on the record described as " a ", and the one
\* prompt sent ends with the context line "a".
C25_Witness ==
    /\ pc = "done" /\ Len(sent) = 1 /\ inflight = <<>>
    /\ remote[1].description = << " ", "a", " " >>
    /\ Len(sent[1]) = 7
    /\ sent[1][1] = << "Work on Beads task ", remote[1].id, ": ", remote[1].title >>
    /\ sent[1][7] = << << "a" >> >>

\* the wrapped lines of the selected record's description at width w
wrappedAt(w) ==
    wrapAll(truncateDescription(displayIssues[selectedPos].description, scrollCap), w)

\* C26: after any scrolls, selection changes and render-width changes the scroll
\* offset is within 0..max(0, wrappedLineCount - 7), the count taken for the
\* selected record's description at the current render width.
C26_ScrollInRange ==
    (pc = "list" /\ selectedPos > 0) =>
        /\ descScroll >= 0
        /\ descScroll <= (IF Len(wrappedAt(lastWidth)) > previewLines
                          THEN Len(wrappedAt(lastWidth)) - previewLines ELSE 0)

\* C28: after a render at width w the preview lines are the wrap of the selected
\* record's description at w. Checked on the renders after which every line the
\* component holds fits the new width, so that the lines shown are the lines held.
C28_RenderRewraps ==
    [][\A w \in PreviewWidths :
          (Render(w) /\ selectedPos > 0 /\ \A i \in 1..Len(descText) : Len(descText[i]) <= w)
              => descText' = windowOf(wrappedAt(w), descScroll')]_vars

\* C27: whenever the selected record changes while the list is shown, by a
\* selection move, by navigation left to the list widget or by a rebuild, the
\* scroll offset is 0 afterwards and the preview shows the first window of the
\* newly selected record's description.
C27_SelectionResetsPreview ==
    [][(pc = "list" /\ pc' = "list" /\ selectedPos > 0
        /\ getSelectedItem(items', selectedIndex') # getSelectedItem(items, selectedIndex)
        /\ getSelectedItem(items', selectedIndex') # Undefined) =>
          /\ descScroll' = 0
          /\ descText' = previewAfter(items', selectedIndex', displayIssues',
                                      lastWidth', descText)]_vars

\* the characters of a text other than spaces, in order
inkOf(t) == SelectSeq(t, LAMBDA c : c # " ")

RECURSIVE joined(_)
\* the lines one after the other
joined(lines) == IF lines = <<>> THEN <<>> ELSE Head(lines) \o joined(Tail(lines))

\* the first word of a line: its characters up to the first space
firstWord(line) ==
    SubSeq(line, 1, SetMin({ i \in 0..Len(line) : i = Len(line) \/ line[i + 1] = " " }))

\* the words of a text: its longest runs of characters without a space, as
\* pairs of first and last position
wordsOf(t) ==
    { << a, b >> \in (1..Len(t)) \X (1..Len(t)) :
        /\ a <= b
        /\ \A i \in a..b : t[i] # " "
        /\ (a = 1 \/ t[a - 1] = " ")
        /\ (b = Len(t) \/ t[b + 1] = " ") }

\* the lines of the descriptions of the local records, as the preview wraps them
previewedLines ==
    UNION { { truncateDescription(displayIssues[k].description, scrollCap)[n] :
                n \in 1..Len(truncateDescription(displayIssues[k].description, scrollCap)) } :
            k \in 1..Len(displayIssues) }

\* what the claim says of the lines `ls` returned for `text` at width `w`
wrappedWell(text, w, ls) ==
    /\ \A i \in 1..Len(ls) : Len(ls[i]) <= w
    /\ \A i \in 1..(Len(ls) - 1) : Len(ls[i]) + 1 + Len(firstWord(ls[i + 1])) > w
    /\ \A p \in wordsOf(text) :
          LET wd == SubSeq(text, p[1], p[2])
              k == (Len(wd) - 1) \div w
          IN Len(wd) > w =>
                \E i \in 1..Len(ls) :
                    /\ i + k <= Len(ls)
                    /\ \A j \in 0..(k - 1) : ls[i + j] = SubSeq(wd, j * w + 1, (j + 1) * w)
                    /\ SubSeq(ls[i + k], 1, Len(wd) - k * w) = SubSeq(wd, k * w + 1, Len(wd))
    /\ Len(ls) < scrollCap => inkOf(joined(ls)) = inkOf(text)

\* C29: for text without ANSI sequences every line wrap returns is at most
\* width long, words are packed onto a line as long as the candidate line fits,
\* a word longer than the width is split into chunks of the width, and, the line
\* cap not reached, the characters other than spaces of the lines are those of
\* the text, in order.
C29_WrapText ==
    pc = "list" =>
        \A text \in previewedLines :
            wrappedWell(text, lastWidth, wrapText(text, lastWidth, scrollCap))

\* C29 witness: at width 2 the line "abb" is wrapped to "ab", "b", and the
\* placeholder of the record without description to eight lines.
C29_Witness ==
    /\ pc = "list" /\ lastWidth = 2
    /\ << "a", "b", "b" >> \in previewedLines
    /\ wrapText(<< "a", "b", "b" >>, lastWidth, scrollCap) = << << "a", "b" >>, << "b" >> >>
    /\ NoDescription \in previewedLines
    /\ Len(wrapText(NoDescription, lastWidth, scrollCap)) = 8

\* a priority that is absent or one of 0..4
priorityOk(p) == p = NoPriority \/ p \in 0..4

editPcs == { "show", "edit", "saveTitle", "saveDesc", "saveStatus", "savePriority" }

\* C31 as stated: when the show or an update awaited by an Edit started from the
\* list fails, the error is shown and the session is back in the list, browsing.
C31_EditFailureReturnsToList ==
    [][(viaList /\ (ShowReject \/ SaveReject))
          => (pc' = "list" /\ ~searching' /\ notes' # {})]_vars

\* C32: a failed update of a save leaves every local record as it was before the
\* Edit: the Edit step, every step of the edit up to and including the failing
\* one, updates of the same save that succeeded before included, change no local
\* record.
C32_FailedSaveKeepsRecords ==
    [][/\ (pc = "list" /\ pc' = "show") => displayIssues' = displayIssues
       /\ (pc \in editPcs /\ pc' \in editPcs) => displayIssues' = displayIssues
       /\ (pc \in editPcs /\ (SaveReject \/ ShowReject)) => displayIssues' = displayIssues]_vars

\* C32 witness: the save of an edit from the list failed after its title update
\* had reached the store; the local records are the fetched ones.
C32_Witness ==
    /\ pc = "done" /\ viaList /\ notes = {"error"}
    /\ displayIssues = ListStore
    /\ remote[1].title = << "A", "a" >>
    /\ remote[1].description = ListStore[1].description

\* C33: the status indicator shows "Loading" exactly while the list fetch is
\* pending: the fetch's resolution, success or failure, clears it, it is clear
\* ever after, and no key is handled by the list while the fetch is pending.
C33_LoadingWhileFetching ==
    /\ [](statusBar = "Loading" <=> pc = "loading")
    /\ [][pc = "loading" => /\ statusBar' = "none"
                            /\ pc' \in {"list", "done"}
                            /\ ~\E data \in KeyNames : HandleInput(data)]_vars

\* C33 witness: the fetch failed, browseIssues has returned with the error
\* shown and the indicator cleared.
C33_Witness ==
    /\ pc = "done" /\ viaList /\ notes = {"error"}
    /\ displayIssues = <<>>
    /\ statusBar = "none"

\* the keys of the marking session that are priority digits, and their digit
priorityKeys == { d \in MarkKeys : parsePriorityKey(d) # NoPriority }
digitOfKey(d) == KeyCodes(d)[1] - 48

\* the un-awaited update call of a field of a record
callFor(id, flag, value) == [id |-> id, flag |-> flag, value |-> value]

\* C36: a status toggle, and a priority key whose digit is not the selected
\* record's priority, put exactly one update call with the new value in flight
\* and leave the list taking input; a priority key with the record's own priority
\* puts no call in flight and changes no record, store or view; and a call is put
\* in flight by these keys only, one per key, never by a completion.
C36_OneUpdatePerMark ==
    [][/\ (pc = "list" /\ ~searching /\ selectedPos > 0) =>
            LET sel == displayIssues[selectedPos]
            IN /\ HandleInput(" ") =>
                     /\ inflight' = Append(inflight, callFor(sel.id, "--status",
                                                              nextStatus(sel.status)))
                     /\ pc' = "list"
               /\ \A d \in priorityKeys : HandleInput(d) =>
                     IF sel.priority # digitOfKey(d)
                     THEN /\ inflight' = Append(inflight, callFor(sel.id, "--priority",
                                                                  DigitText(digitOfKey(d))))
                          /\ pc' = "list"
                     ELSE UNCHANGED << pc, remoteVars, displayIssues, filterTerm, searching,
                                       items, selectedIndex, descScroll, descText, sent >>
       /\ Len(inflight') > Len(inflight) =>
            /\ pc = "list"
            /\ Len(inflight') = Len(inflight) + 1
            /\ \E d \in { " " } \cup priorityKeys : HandleInput(d)]_vars

\* C36 witness: 3 was pressed on the second record, stored with priority 2: one
\* call with priority 3 is in flight and the list goes on.
C36_Witness ==
    /\ pc = "list"
    /\ inflight = << callFor(displayIssues[2].id, "--priority", "3") >>
    /\ displayIssues[2].priority = 3
    /\ remote[2].priority = 2

\* C38: a status toggle or a priority key in the list changes one field of the
\* selected record and nothing else of the records: their number and order, every
\* other record, the selected record's id, title, description and other mark, the
\* filter term and the search flag are as before.
C38_MarkTouchesOneField ==
    [][(pc = "list" /\ ~searching /\ selectedPos > 0
          /\ \E d \in { " " } \cup priorityKeys : HandleInput(d)) =>
            /\ Len(displayIssues') = Len(displayIssues)
            /\ \A k \in 1..Len(displayIssues) :
                  k # selectedPos => displayIssues'[k] = displayIssues[k]
            /\ displayIssues'[selectedPos].id = displayIssues[selectedPos].id
            /\ displayIssues'[selectedPos].title = displayIssues[selectedPos].title
            /\ displayIssues'[selectedPos].description = displayIssues[selectedPos].description
            /\ HandleInput(" ")
                  => displayIssues'[selectedPos].priority = displayIssues[selectedPos].priority
            /\ (\E d \in priorityKeys : HandleInput(d))
                  => displayIssues'[selectedPos].status = displayIssues[selectedPos].status
            /\ filterTerm' = filterTerm
            /\ searching' = searching]_vars

\* C38 witness: the second record was toggled from closed to open; its priority
\* and the first record are as stored.
C38_Witness ==
    /\ pc = "list"
    /\ Len(displayIssues) = 2
    /\ displayIssues[2].status = "open" /\ remote[2].status = "closed"
    /\ displayIssues[2].priority = remote[2].priority
    /\ displayIssues[1] = remote[1]

\* the step that ends a save: Enter in a text field with nothing to update, or
\* the success of the last awaited update
saveReturns ==
    /\ pc' = "list"
    /\ \/ pc = "edit" /\ HandleFormInput("ENTER")
       \/ pc \in editPcs \ { "show", "edit" } /\ SaveResolve

\* C37: when a save returns to the list, the local record with the edited id
\* holds the form's trimmed title, description, status and priority, at the
\* position it had; the records are as many as before and every other record is
\* unchanged.
C37_SaveMergesRecord ==
    [][(viaList /\ saveReturns) =>
          LET k == findIndex(idsOf(displayIssues), selectedId) + 1
          IN /\ k > 0
             /\ Len(displayIssues') = Len(displayIssues)
             /\ \A j \in 1..Len(displayIssues) :
                   j # k => displayIssues'[j] = displayIssues[j]
             /\ displayIssues'[k].id = selectedId
             /\ displayIssues'[k].title = trim(titleValue)
             /\ descOrEmpty(displayIssues'[k].description) = descValue
             /\ displayIssues'[k].status = statusValue
             /\ displayIssues'[k].priority = priorityValue]_vars

\* C37 witness: the first record was saved with all four fields changed in the
\* form; the second is as fetched.
C37_Witness ==
    /\ pc = "list" /\ inflight = <<>>
    /\ displayIssues[1] = Issue(<< "x", "-", "1" >>, << "A", "a" >>, << "a" >>,
                                "in_progress", 3)
    /\ remote[1] = displayIssues[1]
    /\ displayIssues[2] = ListStore[2]

\* C39 as stated: with every update successful, once no update is in flight the
\* store's status and priority of each local record are the local ones.
C39_StoreMatchesLocal ==
    (pc = "list" /\ inflight = <<>>) =>
        \A k \in 1..Len(displayIssues) :
            LET r == findIndex(idsOf(remote), displayIssues[k].id) + 1
            IN /\ r > 0
               /\ remote[r].status = displayIssues[k].status
               /\ remote[r].priority = displayIssues[k].priority

\* ---------------------------------------------------------------- ask_user
\* Longest detail text typed on one choice.
MaxDetail == 2

\* JS `null` for a text of AskResult, and for AskResult.selectedIndex.
Null == << "null" >>
NullIndex == -1

\* A raw choice of params.choices: a string, or an object whose value and
\* description may be absent.
RawString(text) == [type |-> "string", text |-> text]
RawObject(label, value, description) ==
    [type |-> "object", label |-> label, value |-> value, description |-> description]

\* text?.trim()
trimOptional(text) == IF text = Undefined THEN Undefined ELSE trim(text)

\* text || fallback
orElse(text, fallback) == IF text = Undefined \/ text = <<>> THEN fallback ELSE text

\* The label normalizeChoices keeps for a raw choice; empty when it drops the choice.
labelOf(choice) ==
    IF choice.type = "string" THEN trim(choice.text)
    ELSE orElse(trimOptional(choice.label), <<>>)

RECURSIVE normalizeChoices(_)
normalizeChoices(rawChoices) ==
    IF rawChoices = <<>> THEN <<>>
    ELSE LET choice == Head(rawChoices)
             label == labelOf(choice)
             rest == normalizeChoices(Tail(rawChoices))
         IN IF label = <<>> THEN rest
            ELSE IF choice.type = "string"
            THEN << [label |-> label, value |-> label, description |-> Undefined] >> \o rest
            ELSE << [label |-> label,
                     value |-> orElse(trimOptional(choice.value), label),
                     description |-> orElse(trimOptional(choice.description), Undefined)] >>
                 \o rest

AskResultFields ==
    { "question", "selectedLabel", "selectedValue", "selectedIndex", "additionalText",
      "answer", "cancelled", "freeformRequested" }

makeResult(question, overrides) ==
    LET defaults == [question |-> question, selectedLabel |-> Null, selectedValue |-> Null,
                     selectedIndex |-> NullIndex, additionalText |-> Null, answer |-> Null,
                     cancelled |-> FALSE, freeformRequested |-> FALSE]
    IN [f \in AskResultFields |-> IF f \in DOMAIN overrides THEN overrides[f] ELSE defaults[f]]

\* execute's locals
choices == normalizeChoices(params.choices)
allowAdditionalText == params.allowAdditionalText # "false"
canCancel == params.canCancel # "false"
freeformIndex == Len(choices)
totalItems == Len(choices) + 1

isFreeform == askSelectedIndex = freeformIndex

\* additionalByIndex.get(index) || ""
getAdditional(index) ==
    IF index \in DOMAIN additionalByIndex THEN additionalByIndex[index] ELSE <<>>

\* The Map after setAdditional(value, index).
setAdditional(value, index) ==
    IF value = <<>>
    THEN [i \in DOMAIN additionalByIndex \ {index} |-> additionalByIndex[i]]
    ELSE [i \in DOMAIN additionalByIndex \cup {index} |->
             IF i = index THEN value ELSE additionalByIndex[i]]

\* The result submitChoice hands to done() with the selection on `index`.
submitChoice(index, additionalText) ==
    LET selected == choices[index + 1]
        normalizedAdditional == orElse(trim(additionalText), Null)
        answer == IF normalizedAdditional # Null
                  THEN selected.label \o << ":", " " >> \o normalizedAdditional
                  ELSE selected.label
    IN makeResult(params.question,
                  [selectedLabel |-> selected.label,
                   selectedValue |-> selected.value,
                   selectedIndex |-> index + 1,
                   additionalText |-> normalizedAdditional,
                   answer |-> answer])

\* The result submitFreeformRequest hands to done().
submitFreeformRequest == makeResult(params.question, [freeformRequested |-> TRUE])

\* What execute returns for the result the selector resolved with.
askReturnOf(result) ==
    IF result.cancelled
    THEN [content |-> "User cancelled question", details |-> result]
    ELSE IF result.freeformRequested
    THEN [content |-> "User chose to write a custom response",
          details |-> result,
          freeformChoices |-> [i \in 1..Len(choices) |->
                                  [label |-> choices[i].label,
                                   description |-> choices[i].description]]]
    ELSE [content |-> "User selected", details |-> result]

\* done(result): ctx.ui.custom resolves and execute returns.
done(result) ==
    /\ askReturn' = askReturnOf(result)
    /\ pc' = "asked"

\* The selector stays open.
refresh == UNCHANGED << askReturn, pc >>

\* enterDetailMode without the cursor reset: the cursor of the last edit is kept.
enterDetailModeStale ==
    /\ mode' = "detail"
    /\ UNCHANGED << askSelectedIndex, detailCursor, additionalByIndex >>
    /\ refresh

enterDetailMode ==
    /\ mode' = "detail"
    /\ detailCursor' = Len(getAdditional(askSelectedIndex))
    /\ UNCHANGED << askSelectedIndex, additionalByIndex >>
    /\ refresh

\* The key inserts a character into the detail text.
insertsDetail(data) ==
    \/ matchesKey(data, "SHIFT_ENTER")
    \/ matchesKey(data, "ALT_ENTER")
    \/ /\ data \notin { "ENTER", "ESC", "TAB", "LEFT", "RIGHT", "HOME", "END",
                        "BACKSPACE", "DELETE" }
       /\ Len(KeyCodes(data)) = 1
       /\ KeyCodes(data)[1] >= 32

handleDetailInput(data) ==
    LET current == getAdditional(askSelectedIndex)
        inserted(text) ==
            slice(current, 0, detailCursor) \o text \o slice(current, detailCursor, Len(current))
    IN
    IF matchesKey(data, "SHIFT_ENTER") \/ matchesKey(data, "ALT_ENTER") THEN
        /\ additionalByIndex' = setAdditional(inserted(<< NL >>), askSelectedIndex)
        /\ detailCursor' = detailCursor + 1
        /\ UNCHANGED << askSelectedIndex, mode >>
        /\ refresh
    ELSE IF matchesKey(data, "ENTER") THEN
        /\ done(submitChoice(askSelectedIndex, current))
        /\ UNCHANGED << askSelectedIndex, mode, detailCursor, additionalByIndex >>
    ELSE IF matchesKey(data, "ESC") \/ matchesKey(data, "TAB") THEN
        /\ mode' = "select"
        /\ UNCHANGED << askSelectedIndex, detailCursor, additionalByIndex >>
        /\ refresh
    ELSE IF matchesKey(data, "LEFT") THEN
        /\ detailCursor' = Max(0, detailCursor - 1)
        /\ UNCHANGED << askSelectedIndex, mode, additionalByIndex >>
        /\ refresh
    ELSE IF matchesKey(data, "RIGHT") THEN
        /\ detailCursor' = Min(Len(current), detailCursor + 1)
        /\ UNCHANGED << askSelectedIndex, mode, additionalByIndex >>
        /\ refresh
    ELSE IF matchesKey(data, "HOME") THEN
        /\ detailCursor' = 0
        /\ UNCHANGED << askSelectedIndex, mode, additionalByIndex >>
        /\ refresh
    ELSE IF matchesKey(data, "END") THEN
        /\ detailCursor' = Len(current)
        /\ UNCHANGED << askSelectedIndex, mode, additionalByIndex >>
        /\ refresh
    ELSE IF matchesKey(data, "BACKSPACE") THEN
        IF detailCursor > 0 THEN
            /\ additionalByIndex' =
                   setAdditional(slice(current, 0, detailCursor - 1)
                                 \o slice(current, detailCursor, Len(current)),
                                 askSelectedIndex)
            /\ detailCursor' = detailCursor - 1
            /\ UNCHANGED << askSelectedIndex, mode >>
            /\ refresh
        ELSE UNCHANGED << askVars, pc >>
    ELSE IF matchesKey(data, "DELETE") THEN
        IF detailCursor < Len(current) THEN
            /\ additionalByIndex' =
                   setAdditional(slice(current, 0, detailCursor)
                                 \o slice(current, detailCursor + 1, Len(current)),
                                 askSelectedIndex)
            /\ UNCHANGED << askSelectedIndex, mode, detailCursor >>
            /\ refresh
        ELSE UNCHANGED << askVars, pc >>
    ELSE IF Len(KeyCodes(data)) = 1 /\ KeyCodes(data)[1] >= 32 THEN
        /\ additionalByIndex' = setAdditional(inserted(<< data >>), askSelectedIndex)
        /\ detailCursor' = detailCursor + 1
        /\ UNCHANGED << askSelectedIndex, mode >>
        /\ refresh
    ELSE UNCHANGED << askVars, pc >>

\* a <= b for two JS strings given by their char codes
RECURSIVE codesLE(_, _)
codesLE(a, b) ==
    IF a = <<>> THEN TRUE
    ELSE IF b = <<>> THEN FALSE
    ELSE IF Head(a) # Head(b) THEN Head(a) < Head(b)
    ELSE codesLE(Tail(a), Tail(b))

\* parseInt of data that starts with a digit: the number its leading digits spell
RECURSIVE parseDigits(_, _)
parseDigits(codes, acc) ==
    IF codes # <<>> /\ Head(codes) \in 48..57
    THEN parseDigits(Tail(codes), acc * 10 + Head(codes) - 48)
    ELSE acc

parseInt(data) == parseDigits(KeyCodes(data), 0)

\* handleInput in select mode
handleSelectInput(data) ==
    IF matchesKey(data, "UP") THEN
        /\ askSelectedIndex' = Max(0, askSelectedIndex - 1)
        /\ UNCHANGED << mode, detailCursor, additionalByIndex >>
        /\ refresh
    ELSE IF matchesKey(data, "DOWN") THEN
        /\ askSelectedIndex' = Min(totalItems - 1, askSelectedIndex + 1)
        /\ UNCHANGED << mode, detailCursor, additionalByIndex >>
        /\ refresh
    ELSE IF matchesKey(data, "TAB") THEN
        IF isFreeform THEN
            /\ done(submitFreeformRequest)
            /\ UNCHANGED << askSelectedIndex, mode, detailCursor, additionalByIndex >>
        ELSE IF allowAdditionalText THEN enterDetailMode
        ELSE UNCHANGED << askVars, pc >>
    ELSE IF matchesKey(data, "ENTER") THEN
        /\ done(IF isFreeform THEN submitFreeformRequest
                ELSE submitChoice(askSelectedIndex, getAdditional(askSelectedIndex)))
        /\ UNCHANGED << askSelectedIndex, mode, detailCursor, additionalByIndex >>
    ELSE IF matchesKey(data, "ESC") THEN
        /\ done(submitFreeformRequest)
        /\ UNCHANGED << askSelectedIndex, mode, detailCursor, additionalByIndex >>
    ELSE IF codesLE(<< 49 >>, KeyCodes(data)) /\ codesLE(KeyCodes(data), << 57 >>) THEN
        LET index == parseInt(data) - 1
        IN IF index < Len(choices) THEN
               /\ askSelectedIndex' = index
               /\ done(submitChoice(index, getAdditional(index)))
               /\ UNCHANGED << mode, detailCursor, additionalByIndex >>
           ELSE UNCHANGED << askVars, pc >>
    ELSE IF KeyCodes(data) = << 48 >> THEN
        /\ done(submitFreeformRequest)
        /\ UNCHANGED << askSelectedIndex, mode, detailCursor, additionalByIndex >>
    ELSE UNCHANGED << askVars, pc >>

beadsVars == << viaList, statusBar, notes, sent, remoteVars, listVars, formVars >>

\* execute up to the point where the selector is shown, or to its early return.
AskExecute ==
    /\ pc = "execute"
    /\ IF ~hasUI \/ Len(choices) = 0
       THEN /\ askReturn' = [content |-> IF ~hasUI
                                         THEN "Error: ask_user requires interactive UI mode."
                                         ELSE "Error: ask_user requires at least one choice.",
                             details |-> makeResult(params.question, [cancelled |-> TRUE])]
            /\ pc' = "asked"
       ELSE /\ pc' = "ask"
            /\ UNCHANGED askReturn
    /\ askSelectedIndex' = 0
    /\ mode' = "select"
    /\ detailCursor' = 0
    /\ additionalByIndex' = << >>
    /\ UNCHANGED << params, hasUI, gateVars, beadsVars >>

\* The selector's handleInput.
AskHandleInput(data) ==
    /\ pc = "ask"
    /\ (mode = "detail" /\ insertsDetail(data))
           => Len(getAdditional(askSelectedIndex)) < MaxDetail
    /\ IF mode = "detail" THEN handleDetailInput(data) ELSE handleSelectInput(data)
    /\ UNCHANGED << params, hasUI, gateVars, beadsVars >>

\* The raw choice lists a call is made with: none, a blank string, a plain
\* string, a list with a blank string and an object whose label is padded, and
\* a list of objects with value and description, one of them without label.
AskChoiceLists ==
    { <<>>,
      << RawString(<< " " >>) >>,
      << RawString(<< "a" >>) >>,
      << RawString(<< "a" >>), RawString(<< " " >>),
         RawObject(<< " ", "b" >>, Undefined, Undefined) >>,
      << RawObject(<< "c" >>, << "v", " " >>, << "d" >>),
         RawObject(Undefined, << "w" >>, Undefined),
         RawObject(<< "b" >>, << " " >>, << " " >>) >> }

AskParams ==
    { [question |-> << "q" >>, choices |-> rawChoices,
       allowAdditionalText |-> allow, canCancel |-> cancel] :
        rawChoices \in AskChoiceLists,
        allow \in { "true", "false", "undefined" },
        cancel \in { "true", "false", "undefined" } }

\* The keys pressed in the selector, by its mode.
AskKeys(m) ==
    IF m = "select"
    THEN { "UP", "DOWN", "TAB", "ENTER", "ESC", "a", "0", "1", "3", "9" }
    ELSE { "SHIFT_ENTER", "ALT_ENTER", "ENTER", "ESC", "TAB", "LEFT", "RIGHT", "HOME",
           "END", "BACKSPACE", "DELETE", "a" }

beadsIdle ==
    /\ viaList = TRUE
    /\ statusBar = "none"
    /\ notes = {}
    /\ sent = <<>>
    /\ remote = <<>>
    /\ inflight = <<>>
    /\ displayIssues = <<>>
    /\ filterTerm = <<>>
    /\ rememberedSelectedId = Undefined
    /\ selectedId = Undefined
    /\ searching = FALSE
    /\ searchBuffer = <<>>
    /\ items = <<>>
    /\ selectedIndex = 0
    /\ wired = "none"
    /\ writes = 0
    /\ descScroll = 0
    /\ lastWidth = initialWidth
    /\ descText = <<>>
    /\ issue = NoIssue
    /\ titleValue = <<>>
    /\ descValue = <<>>
    /\ statusValue = "open"
    /\ priorityValue = NoPriority
    /\ focused = "nav"
    /\ titleCursor = 0
    /\ descCursor = 0

InitAsk ==
    /\ pc = "execute"
    /\ beadsIdle
    /\ hasUI \in BOOLEAN
    /\ params \in AskParams
    /\ askSelectedIndex = 0
    /\ mode = "select"
    /\ detailCursor = 0
    /\ additionalByIndex = << >>
    /\ askReturn = NoReturn
    /\ extension = "none"
    /\ event = NoEvent
    /\ verdict = NoVerdict

NextAsk ==
    \/ AskExecute
    \/ \E data \in AskKeys(mode) : AskHandleInput(data)

SpecAsk == InitAsk /\ [][NextAsk]_vars


\* C34: with canCancel true (the default), Escape pressed in select mode
\* cancels the question: execute returns a result with cancelled = true and
\* no choice selected.
C34_EscapeCancels ==
    [][(pc = "ask" /\ mode = "select" /\ canCancel /\ AskHandleInput("ESC"))
           => /\ pc' = "asked"
              /\ askReturn'.details.cancelled
              /\ askReturn'.details.selectedIndex = NullIndex
              /\ askReturn'.details.selectedLabel = Null]_vars

\* C40: the selected index stays within 0..number of choices, moving by at
\* most one entry while the selector stays open (no wrapping); in detail mode
\* the detail cursor stays within 0..length of the selected choice's
\* additional text, the selection is not the freeform entry and
\* allowAdditionalText is not false.
C40_SelectorInRange ==
    /\ [](/\ askSelectedIndex \in 0..Len(choices)
          /\ mode = "detail" =>
                 /\ detailCursor \in 0..Len(getAdditional(askSelectedIndex))
                 /\ ~isFreeform
                 /\ allowAdditionalText)
    /\ [][(pc = "ask" /\ pc' = "ask")
              => askSelectedIndex' - askSelectedIndex \in { -1, 0, 1 }]_vars

\* The second of two choices is being detailed with the cursor inside a full
\* text, after the first one was given a text too.
C40_Witness ==
    /\ pc = "ask"
    /\ mode = "detail"
    /\ Len(choices) = 2
    /\ askSelectedIndex = 1
    /\ Len(getAdditional(1)) = MaxDetail
    /\ detailCursor = 1
    /\ getAdditional(0) # <<>>

\* ---------------------------------------------------------------- regular expressions
\* The RegExp constructs the tool_call handlers' patterns are written with.
Chr(c) == [t |-> "chr", c |-> c]
OneOf(cs) == [t |-> "set", cs |-> cs]
AnyChar == [t |-> "any"]
Cat(rs) == [t |-> "cat", rs |-> rs]
Alt(rs) == [t |-> "alt", rs |-> rs]
Star(r) == [t |-> "star", r |-> r]
Plus(r) == Cat(<< r, Star(r) >>)
Opt(r) == Alt(<< r, Cat(<<>>) >>)
WordBoundary == [t |-> "wb"]
EndOfInput == [t |-> "end"]
NotAhead(r) == [t |-> "nla", r |-> r]
Lit(s) == Cat([i \in 1..Len(s) |-> Chr(s[i])])

LowerLetters ==
    << "a", "b", "c", "d", "e", "f", "g", "h", "i", "j", "k", "l", "m", "n", "o", "p", "q", "r", "s", "t", "u", "v", "w", "x", "y", "z" >>
UpperLetters ==
    << "A", "B", "C", "D", "E", "F", "G", "H", "I", "J", "K", "L", "M", "N", "O", "P", "Q", "R", "S", "T", "U", "V", "W", "X", "Y", "Z" >>
Digits == { "0", "1", "2", "3", "4", "5", "6", "7", "8", "9" }

\* \w and \s over the characters commands and paths are written with
WordChars ==
    { LowerLetters[i] : i \in 1..26 } \cup { UpperLetters[i] : i \in 1..26 }
        \cup Digits \cup { "_" }
Space == OneOf({ " ", "\t", NL })

\* str.toLowerCase() of one character
lowerCase(c) ==
    IF \E i \in 1..26 : UpperLetters[i] = c
    THEN LowerLetters[CHOOSE i \in 1..26 : UpperLetters[i] = c]
    ELSE c

\* The character before offset i of s is a word character.
wordBefore(s, i) == i >= 1 /\ i <= Len(s) /\ s[i] \in WordChars

\* The offsets at which a match of `re` that starts at offset i of s can end.
RECURSIVE matchEnds(_, _, _)
RECURSIVE catEnds(_, _, _)
RECURSIVE starEnds(_, _, _, _)
matchEnds(re, s, i) ==
    CASE re.t = "chr" -> IF i < Len(s) /\ s[i + 1] = re.c THEN { i + 1 } ELSE {}
      [] re.t = "set" -> IF i < Len(s) /\ s[i + 1] \in re.cs THEN { i + 1 } ELSE {}
      [] re.t = "any" -> IF i < Len(s) /\ s[i + 1] # NL THEN { i + 1 } ELSE {}
      [] re.t = "cat" -> catEnds(re.rs, s, { i })
      [] re.t = "alt" -> UNION { matchEnds(re.rs[k], s, i) : k \in 1..Len(re.rs) }
      [] re.t = "star" -> starEnds(re.r, s, { i }, { i })
      [] re.t = "wb" -> IF wordBefore(s, i) # wordBefore(s, i + 1) THEN { i } ELSE {}
      [] re.t = "end" -> IF i = Len(s) THEN { i } ELSE {}
      [] re.t = "nla" -> IF matchEnds(re.r, s, i) = {} THEN { i } ELSE {}

catEnds(rs, s, from) ==
    IF Len(rs) = 0 THEN from
    ELSE catEnds(Tail(rs), s, UNION { matchEnds(Head(rs), s, j) : j \in from })

starEnds(r, s, frontier, seen) ==
    LET next == UNION { matchEnds(r, s, j) : j \in frontier } \ seen
    IN IF next = {} THEN seen ELSE starEnds(r, s, next, seen \cup next)

\* pattern.test(s)
test(re, s) == \E i \in 0..Len(s) : matchEnds(re, s, i) # {}

\* pattern.test(s) of a pattern with the i flag whose letters are all lower case
testIgnoreCase(re, s) == test(re, [i \in 1..Len(s) |-> lowerCase(s[i])])


\* ---------------------------------------------------------------- permission-gate.ts
\* /\brm\s+(-rf?|--recursive)/i, /\bsudo\b/i, /\b(chmod|chown)\b.*777/i
dangerousPatterns ==
    << Cat(<< WordBoundary, Lit(<< "r", "m" >>), Plus(Space),
              Alt(<< Cat(<< Lit(<< "-", "r" >>), Opt(Chr("f")) >>), Lit(<< "-", "-", "r", "e", "c", "u", "r", "s", "i", "v", "e" >>) >>) >>),
       Cat(<< WordBoundary, Lit(<< "s", "u", "d", "o" >>), WordBoundary >>),
       Cat(<< WordBoundary, Alt(<< Lit(<< "c", "h", "m", "o", "d" >>), Lit(<< "c", "h", "o", "w", "n" >>) >>), WordBoundary,
              Star(AnyChar), Lit(<< "7", "7", "7" >>) >>) >>

isDangerous(command) ==
    \E k \in 1..Len(dangerousPatterns) : testIgnoreCase(dangerousPatterns[k], command)


\* ---------------------------------------------------------------- safety.ts
\* The dangerous bash patterns of safety.ts, in order.  In the last one the
\* braces are literal and `|` splits the pattern into two alternatives.
safetyDangerousPatterns ==
    << [pattern |->
            Cat(<< WordBoundary, Lit(<< "r", "m" >>), Plus(Space),
                   Alt(<< Cat(<< Chr("-"), Plus(OneOf({ "r", "R", "f" })) >>),
                          Lit(<< "-", "-", "r", "e", "c", "u", "r", "s", "i", "v", "e" >>), Lit(<< "-", "-", "f", "o", "r", "c", "e" >>) >>) >>),
          reason |-> "recursive/force delete"],
       [pattern |->
            Cat(<< WordBoundary, Lit(<< "s", "u", "d", "o" >>), WordBoundary >>),
          reason |-> "elevated privileges"],
       [pattern |->
            Cat(<< WordBoundary, Alt(<< Lit(<< "c", "h", "m", "o", "d" >>), Lit(<< "c", "h", "o", "w", "n" >>) >>),
                   WordBoundary, Star(AnyChar), Lit(<< "7", "7", "7" >>) >>),
          reason |-> "world-writable permissions"],
       [pattern |->
            Cat(<< WordBoundary, Lit(<< "m", "k", "f", "s" >>), WordBoundary >>),
          reason |-> "filesystem format"],
       [pattern |->
            Cat(<< WordBoundary, Lit(<< "d", "d" >>), WordBoundary, Star(AnyChar), WordBoundary,
                   Lit(<< "o", "f", "=" >>) >>),
          reason |-> "disk write"],
       [pattern |->
            Cat(<< Chr(">"), Star(Space), Lit(<< "/", "d", "e", "v", "/" >>),
                   NotAhead(Lit(<< "n", "u", "l", "l" >>)) >>),
          reason |-> "device write"],
       [pattern |->
            Cat(<< WordBoundary, Lit(<< "r", "m" >>), Plus(Space), Star(AnyChar), Chr("/"),
                   Star(Space), EndOfInput >>),
          reason |-> "delete root-like path"],
       [pattern |->
            Cat(<< WordBoundary, Lit(<< "g", "i", "t" >>), Plus(Space),
                   Alt(<< Lit(<< "p", "u", "s", "h" >>),
                          Cat(<< Lit(<< "r", "e", "s", "e", "t" >>), Plus(Space), Lit(<< "-", "-", "h", "a", "r", "d" >>) >>),
                          Cat(<< Lit(<< "c", "l", "e", "a", "n" >>), Plus(Space), Chr("-"), OneOf({ "f", "d" }) >>) >>) >>),
          reason |-> "destructive git operation"],
       [pattern |->
            Cat(<< WordBoundary, Lit(<< "g", "t" >>), Plus(Space), Chr("s"),
                   Opt(Lit(<< "u", "b", "m", "i", "t" >>)), WordBoundary >>),
          reason |-> "graphite submit"],
       [pattern |->
            Cat(<< WordBoundary, Lit(<< "n", "p", "m" >>), Plus(Space), Lit(<< "p", "u", "b", "l", "i", "s", "h" >>),
                   WordBoundary >>),
          reason |-> "package publish"],
       [pattern |->
            Cat(<< WordBoundary, Lit(<< "c", "u", "r", "l" >>), WordBoundary, Star(AnyChar), Chr("|"),
                   Star(Space), Cat(<< Opt(Lit(<< "b", "a" >>)), Lit(<< "s", "h" >>) >>) >>),
          reason |-> "pipe to shell"],
       [pattern |->
            Cat(<< WordBoundary, Lit(<< "w", "g", "e", "t" >>), WordBoundary, Star(AnyChar), Chr("|"),
                   Star(Space), Cat(<< Opt(Lit(<< "b", "a" >>)), Lit(<< "s", "h" >>) >>) >>),
          reason |-> "pipe to shell"],
       [pattern |->
            Alt(<< Cat(<< Chr(":"), Cat(<<>>), Lit(<< "{", " ", ":" >>) >>),
                   Lit(<< ":", "&", " ", "}", ";", ":" >>) >>),
          reason |-> "fork bomb"] >>

blockedPaths ==
    << << ".", "e", "n", "v" >>,
       << ".", "e", "n", "v", ".", "l", "o", "c", "a", "l" >>,
       << ".", "e", "n", "v", ".", "p", "r", "o", "d", "u", "c", "t", "i", "o", "n" >>,
       << "s", "e", "c", "r", "e", "t", "s", "/" >>,
       << ".", "g", "i", "t", "/" >>,
       << "n", "o", "d", "e", "_", "m", "o", "d", "u", "l", "e", "s", "/" >>,
       << "i", "d", "_", "r", "s", "a" >>,
       << "i", "d", "_", "e", "d", "2", "5", "5", "1", "9" >>,
       << ".", "s", "s", "h", "/" >>,
       << ".", "a", "w", "s", "/", "c", "r", "e", "d", "e", "n", "t", "i", "a", "l", "s" >>,
       << ".", "n", "p", "m", "r", "c" >> >>

sensitivePathPatterns ==
    << [pattern |->
            Cat(<< Lit(<< "p", "a", "c", "k", "a", "g", "e", "-", "l", "o", "c", "k", ".", "j", "s", "o", "n" >>), EndOfInput >>),
          reason |-> "lockfile"],
       [pattern |->
            Cat(<< Lit(<< ".", "l", "o", "c", "k" >>), EndOfInput >>),
          reason |-> "lockfile"],
       [pattern |->
            Cat(<< Lit(<< "D", "o", "c", "k", "e", "r", "f", "i", "l", "e" >>), EndOfInput >>),
          reason |-> "container config"],
       [pattern |->
            Cat(<< Lit(<< "d", "o", "c", "k", "e", "r", "-", "c", "o", "m", "p", "o", "s", "e", ".", "y" >>), Opt(Chr("a")), Lit(<< "m", "l" >>), EndOfInput >>),
          reason |-> "container orchestration"],
       [pattern |->
            Lit(<< ".", "g", "i", "t", "h", "u", "b", "/", "w", "o", "r", "k", "f", "l", "o", "w", "s", "/" >>),
          reason |-> "CI/CD workflow"] >>

\* The commands and paths the handlers are called with.
GateCommands ==
    { << "l", "s" >>,
      << "r", "m", " ", "-", "r", "f", " ", "x" >>,
      << "r", "m", " ", "-", "f", " ", "x" >>,
      << "R", "M", " ", "-", "R", "F", " ", "x" >>,
      << "f", "a", "r", "m", " ", "-", "r", "f", " ", "x" >>,
      << "s", "u", "d", "o", " ", "l", "s" >>,
      << "p", "s", "e", "u", "d", "o", " ", "l", "s" >>,
      << "c", "h", "m", "o", "d", " ", "7", "7", "7", " ", "f" >>,
      << "g", "i", "t", " ", "p", "u", "s", "h" >>,
      << "e", " ", ">", "/", "d", "e", "v", "/", "s", "d", "a" >>,
      << "e", " ", ">", "/", "d", "e", "v", "/", "n", "u", "l", "l" >>,
      << "r", "m", " ", "a", "/" >>,
      << "c", "u", "r", "l", " ", "x", "|", "s", "h" >>,
      << ":", "(", ")", "{", " ", ":", "|", ":", "&", " ", "}", ";", ":" >> }

GatePaths ==
    { << ".", "e", "n", "v" >>,
      << "a", "/", ".", "g", "i", "t", "/", "c" >>,
      << "a", ".", "e", "n", "v", "o", "y" >>,
      << "s", "r", "c", "/", "a", ".", "t", "s" >>,
      << "y", "a", "r", "n", ".", "l", "o", "c", "k" >>,
      << "D", "o", "c", "k", "e", "r", "f", "i", "l", "e" >>,
      << "d", "o", "c", "k", "e", "r", "-", "c", "o", "m", "p", "o", "s", "e", ".", "y", "m", "l" >>,
      << ".", "g", "i", "t", "h", "u", "b", "/", "w", "o", "r", "k", "f", "l", "o", "w", "s", "/", "x" >> }

\* ---------------------------------------------------------------- tool_call handlers
\* ctx.ui.select resolves with undefined when the dialog is dismissed.
NoChoice == "undefined"

\* `return undefined`: the call proceeds.
Proceed == [block |-> FALSE, reason |-> <<>>]
Block(reason) == [block |-> TRUE, reason |-> reason]

\* 1-based position of the first pattern of `patterns` that matches, 0 if none
\* (the `for ... of` loops of safety.ts stop at the first match).
firstMatch(patterns, text) ==
    IF \E k \in 1..Len(patterns) : test(patterns[k].pattern, text)
    THEN CHOOSE k \in 1..Len(patterns) :
             /\ test(patterns[k].pattern, text)
             /\ \A j \in 1..(k - 1) : ~test(patterns[j].pattern, text)
    ELSE 0

\* 1-based position of the first blocked entry the path includes, 0 if none.
firstBlocked(path) ==
    IF \E k \in 1..Len(blockedPaths) : includes(path, blockedPaths[k])
    THEN CHOOSE k \in 1..Len(blockedPaths) :
             /\ includes(path, blockedPaths[k])
             /\ \A j \in 1..(k - 1) : ~includes(path, blockedPaths[j])
    ELSE 0

\* The options of the confirmation dialog the handler shows for the event.
selectOptions ==
    IF extension = "permission-gate" THEN << "No", "Yes" >>
    ELSE IF event.toolName = "bash" THEN << "No, block", "Yes, execute" >>
    ELSE << "No, block", "Yes, allow" >>

\* The option that lets the call proceed.
allowOption == selectOptions[2]

\* Only "No" counts as a refusal: a dismissed dialog lets the call proceed.
refusedExplicitly(choice, allow) == choice \notin { allow, NoChoice }

\* choice !== "Yes" / "Yes, execute" / "Yes, allow"
refused(choice, allow) == choice # allow

\* permission-gate.ts, up to its return or to the confirmation dialog
PermissionGateCall ==
    IF event.toolName # "bash" THEN
        /\ verdict' = Proceed
        /\ pc' = "returned"
    ELSE IF isDangerous(event.input) THEN
        IF ~hasUI THEN
            /\ verdict' = Block(<< "Dangerous command blocked (no UI for confirmation)" >>)
            /\ pc' = "returned"
        ELSE
            /\ pc' = "select"
            /\ UNCHANGED verdict
    ELSE
        /\ verdict' = Proceed
        /\ pc' = "returned"

\* safety.ts, up to its return or to a confirmation dialog
SafetyCall ==
    IF event.toolName = "bash" THEN
        LET k == firstMatch(safetyDangerousPatterns, event.input)
        IN IF k = 0 THEN
               /\ verdict' = Proceed
               /\ pc' = "returned"
               /\ UNCHANGED notes
           ELSE IF ~hasUI THEN
               /\ verdict' = Block(<< "Dangerous command blocked (",
                                      safetyDangerousPatterns[k].reason,
                                      ") - no UI for confirmation" >>)
               /\ pc' = "returned"
               /\ UNCHANGED notes
           ELSE
               /\ pc' = "select"
               /\ UNCHANGED << verdict, notes >>
    ELSE IF event.toolName = "write" \/ event.toolName = "edit" THEN
        LET b == firstBlocked(event.input)
            k == firstMatch(sensitivePathPatterns, event.input)
        IN IF b # 0 THEN
               /\ notes' = IF hasUI THEN { "warning: Blocked (protected path)" } ELSE notes
               /\ verdict' = Block(<< "Path is protected (contains ", blockedPaths[b], ")" >>)
               /\ pc' = "returned"
           ELSE IF k = 0 THEN
               /\ verdict' = Proceed
               /\ pc' = "returned"
               /\ UNCHANGED notes
           ELSE IF ~hasUI THEN
               /\ verdict' = Block(<< "Sensitive path blocked (",
                                      sensitivePathPatterns[k].reason,
                                      ") - no UI for confirmation" >>)
               /\ pc' = "returned"
               /\ UNCHANGED notes
           ELSE
               /\ pc' = "select"
               /\ UNCHANGED << verdict, notes >>
    ELSE
        /\ verdict' = Proceed
        /\ pc' = "returned"
        /\ UNCHANGED notes

\* The tool_call handler of the loaded extension runs on the event.
ToolCall ==
    /\ pc = "toolCall"
    /\ IF extension = "permission-gate"
       THEN PermissionGateCall /\ UNCHANGED notes
       ELSE SafetyCall
    /\ UNCHANGED << hasUI, askVars, extension, event, viaList, statusBar, sent,
                    remoteVars, listVars, formVars >>

\* ctx.ui.select resolves with `choice` and the handler returns.
SelectResolve(choice) ==
    /\ pc = "select"
    /\ pc' = "returned"
    /\ verdict' =
           IF refused(choice, allowOption) THEN
               IF extension = "permission-gate" THEN Block(<< "Blocked by user" >>)
               ELSE IF event.toolName = "bash"
               THEN Block(<< "Blocked by user: ",
                             safetyDangerousPatterns[
                                 firstMatch(safetyDangerousPatterns, event.input)].reason >>)
               ELSE Block(<< "Blocked by user: ",
                             sensitivePathPatterns[
                                 firstMatch(sensitivePathPatterns, event.input)].reason >>)
           ELSE Proceed
    /\ UNCHANGED << hasUI, askVars, extension, event, beadsVars >>

GateEvents ==
    { [toolName |-> "bash", input |-> command] : command \in GateCommands }
        \cup { [toolName |-> tool, input |-> path] :
                   tool \in { "write", "edit", "read" }, path \in GatePaths }

InitGate ==
    /\ pc = "toolCall"
    /\ beadsIdle
    /\ hasUI \in BOOLEAN
    /\ params = NoParams
    /\ askSelectedIndex = 0
    /\ mode = "select"
    /\ detailCursor = 0
    /\ additionalByIndex = << >>
    /\ askReturn = NoReturn
    /\ extension \in { "permission-gate", "safety" }
    /\ event \in GateEvents
    /\ verdict = NoVerdict

NextGate ==
    \/ ToolCall
    \/ \E choice \in { "No", "Yes", "No, block", "Yes, execute", "Yes, allow", NoChoice } :
           /\ choice \in { selectOptions[1], selectOptions[2], NoChoice }
           /\ SelectResolve(choice)

SpecGate == InitGate /\ [][NextGate]_vars

\* The event is a bash call whose command matches a dangerous pattern of the
\* loaded extension / a write or edit whose path contains a protected entry.
dangerousBash ==
    /\ event.toolName = "bash"
    /\ IF extension = "permission-gate"
       THEN \E k \in 1..Len(dangerousPatterns) : testIgnoreCase(dangerousPatterns[k], event.input)
       ELSE \E k \in 1..Len(safetyDangerousPatterns) :
                test(safetyDangerousPatterns[k].pattern, event.input)
protectedWrite ==
    /\ extension = "safety"
    /\ event.toolName \in { "write", "edit" }
    /\ \E k \in 1..Len(blockedPaths) : includes(event.input, blockedPaths[k])

\* C35: a bash call whose command matches a dangerous pattern proceeds only
\* when a UI is available and the user picked the allow option in the
\* confirmation dialog; without UI, and on the other option or a dismissed
\* dialog, the handler returns a block; a write or edit whose path contains a
\* protected entry is blocked whatever the UI and never reaches a dialog.
C35_DangerousNeedsConsent ==
    /\ [](/\ (pc = "returned" /\ dangerousBash /\ ~hasUI) => verdict.block
          /\ (pc = "returned" /\ protectedWrite) => verdict.block
          /\ protectedWrite => pc # "select")
    /\ [][(dangerousBash /\ pc' = "returned")
              => \/ verdict'.block
                 \/ hasUI /\ pc = "select" /\ SelectResolve(allowOption)]_vars
    /\ [][\A choice \in { selectOptions[1], NoChoice } :
              (dangerousBash /\ SelectResolve(choice)) => verdict'.block]_vars

\* A dangerous command was confirmed with the allow option and proceeds, under
\* the safety extension with a command only its patterns match.
C35_Witness ==
    /\ pc = "returned"
    /\ extension = "safety"
    /\ dangerousBash
    /\ ~isDangerous(event.input)
    /\ hasUI
    /\ verdict = Proceed

====
